---- MODULE Spec2Model ----
(***************************************************************************)
(* A model of the zenon-bridge-bot pipeline:                               *)
(*   - ZenonWebSocket (src/src/zenon/websocket.py): the connection manager *)
(*     with its reconnect loop, stop(), and the per-block ingestion loop;  *)
(*   - TransactionDecoder (src/src/zenon/decoder.py): the classifier;      *)
(*   - Database (src/database.py) and                                      *)
(*     TelegramHandlers.send_transaction_notification                      *)
(*     (src/src/telegram/handlers.py): the store and the fanout.           *)
(* Each component has its own specification over the shared variables:     *)
(* SpecConn, SpecDecode, SpecIngest, SpecFanout, SpecStore, SpecStats,     *)
(* SpecConc, SpecSubs, SpecBatch, SpecAmount; SpecConnSleep and            *)
(* SpecConnLive are SpecConn with fairness.                                *)
(***************************************************************************)
EXTENDS Integers, Sequences, FiniteSets, TLC

VARIABLES
    (* ---- ZenonWebSocket fields (websocket.py:20-29) ---- *)
    running,            \* self._running
    ws,                 \* self.ws: "none" | "open" | "closed" (state of the object it refers to)
    subscription_id,    \* self.subscription_id: None (0) or an id the node returned
    reconnect_delay,    \* self.reconnect_delay
    (* ---- positions of the two coroutines ---- *)
    spc,                \* start(): "init" | "connecting" | "subscribing" | "streaming"
                        \*          | "sleeping" | "returned"
    stpc,               \* stop(): "none" | "closing" | "done" | "raised"
    (* ---- observers of the connection manager (not program state) ---- *)
    serverSub,          \* a subscription is active on the transport self.ws refers to
    failRun,            \* failed attempts since the last successful subscribe
    sleepDur,           \* the duration of the backoff sleep in progress (0: none)
    subAfterStop,       \* a subscribe request was sent after stop() had been called
    connAfterStop,      \* a connection was opened after stop() had been called
    lastFrame,          \* the last frame read: "none" | "malformed" | "handled"
    nMalformed,         \* frames dropped because they were no JSON
    nHandled,           \* frames passed to _handle_message
    lastSub,            \* params.subscription of the last notification handled (None: no notification)
    nProcessed,         \* notifications passed to _process_account_block
    prevSub,            \* the id held before the last successful subscribe
    (* ---- TelegramHandlers field (handlers.py:17) ---- *)
    ws_connected,       \* self.ws_connected, what /status reports
    (* ---- the classifier applied to one event (decoder.py) ---- *)
    dblk,               \* the event handed to decode_transaction
    dtx,                \* the Transaction it returned
    dvalid,             \* _is_valid_bridge_transaction of that Transaction
    ddone,              \* a decode has been made
    dtx2,               \* the Transaction a later decode of the same event returned
    dlast,              \* the type the last decode of another event returned
    dcalls,             \* decode_transaction calls made so far
    (* ---- _process_account_block (websocket.py:123-191) ---- *)
    ipc,                \* "idle" | "loop" | "primary" | "pending" | "paired"
    blk,                \* the block the last stage looked at (primary or paired)
    hasPaired,          \* the primary event carries a pairedAccountBlock
    calls,              \* the Transactions the last stage passed to on_transaction
    outcome,            \* what the last stage did with its block
    primOutcome,        \* what the primary stage of the current event did
    remaining,          \* events of the notification not yet looked at
    aborted,            \* the handler left its loop through the except clause
    nsize,              \* the number of events of the current notification
    evIdx,              \* the position, in its notification, of the event being processed
    cbLog,              \* observer: <<event position, stage>> of each callback made for
                        \* the current notification, in the order made (stage 1: primary,
                        \* 2: paired)
    (* ---- the database (database.py) ---- *)
    subscribers,        \* table subscribers: user_id -> row
    transactions,       \* table transactions: hash -> row
    (* ---- send_transaction_notification (handlers.py:148-171) ---- *)
    fpc,                \* "idle" | "store" | "send" | "done" | "raised"
    ftx,                \* tx_info
    flist,              \* subscribers, as get_active_subscribers returned it
    fi,                 \* the number of list entries the loop has gone through
    midCmds,            \* commands handled while this dispatch has been running
    (* ---- observers of one dispatch ---- *)
    evals,              \* user_id -> number of loop iterations for that subscriber
    attempts,           \* user_id -> number of send_message calls
    results,            \* user_id -> "none" | "filtered" | "delivered" | "failed"
    storeRes,           \* how add_transaction ended: "none" | "ok" | "insertfail" | "openfail"
    (* ---- observers of one add_transaction call (database.py:113-141) ---- *)
    stx,                \* the Transaction of the last call
    sBefore,            \* the row its hash had before the call
    sRet,               \* what the call returned: "none" (no call yet) | "None" | "raised"
    sCalls,             \* calls made so far
    (* ---- get_statistics (database.py:143-177) ---- *)
    stable,             \* the rows of table transactions the statistics are taken of
    swindow,            \* period_days
    stats,              \* the list get_statistics returned, as a set of rows
    sdone,              \* get_statistics has returned
    (* ---- two concurrent add_transaction calls (database.py:113-141) ---- *)
    cpc,                \* caller -> "start" | "opened" | "inserted" | "failed"
                        \*           | "committed" | "done"
    ctx,                \* caller -> the Transaction it records
    clock,              \* the caller whose connection holds the write lock (0: none)
    cpending,           \* the rows the lock holder has inserted and not yet committed
    ctable,             \* the durable rows of table transactions, as a sequence
    cret,                \* caller -> "none" | "None" (returned) | "raised"
    (* ---- the subscriber table under the three subscriber calls ---- *)
    subN,               \* calls made so far; CURRENT_TIMESTAMP of the next one
    subOp,              \* the last call: <<name, user_id>>
    subBefore,          \* table subscribers before the last call
    everAdded,           \* the user ids add_subscriber was called with
    (* ---- one dispatch with deliveries that may never complete ---- *)
    bpc,                \* "reading" | "loop" | "pending"
    btx,                \* the Transaction of the current dispatch
    blist,              \* the list get_active_subscribers returned
    bi,                 \* entries of blist the loop is done with
    bunreach,           \* the users whose send_message never completes
    battempts,          \* user -> send_message calls started in this dispatch
    bevents,            \* events the stream loop has passed to on_transaction
    bsent,              \* user -> hash -> notifications delivered over the run
    (* ---- the formatted amount of decode_transaction (decoder.py:47-52) ---- *)
    aAmount,            \* the amount field of the event, as a sequence of characters
    aToken,             \* the tokenStandard field of the event
    aResult,            \* what decode_transaction made of them
    aDone               \* decode_transaction has been called

frameVars == <<lastFrame, nMalformed, nHandled, lastSub, nProcessed>>

connVars == <<running, ws, subscription_id, reconnect_delay, spc, stpc,
              serverSub, failRun, sleepDur, subAfterStop, connAfterStop, frameVars,
              prevSub, ws_connected>>

decVars == <<dblk, dtx, dvalid, ddone, dtx2, dlast, dcalls>>

ingVars == <<ipc, blk, hasPaired, calls, outcome, primOutcome, remaining, aborted,
             nsize, evIdx, cbLog>>

dbVars == <<subscribers, transactions>>

fanVars == <<fpc, ftx, flist, fi, midCmds, evals, attempts, results, storeRes>>

stoVars == <<stx, sBefore, sRet, sCalls>>

statVars == <<stable, swindow, stats, sdone>>

concVars == <<cpc, ctx, clock, cpending, ctable, cret>>

subVars == <<subN, subOp, subBefore, everAdded>>

batchVars == <<bpc, btx, blist, bi, bunreach, battempts, bevents, bsent>>

amtVars == <<aAmount, aToken, aResult, aDone>>

vars == <<connVars, decVars, ingVars, dbVars, fanVars, stoVars, statVars, concVars, subVars, batchVars, amtVars>>

\* the frame of each component's actions
ConnOnly == UNCHANGED <<decVars, ingVars, dbVars, fanVars, stoVars, statVars, concVars, subVars, batchVars, amtVars>>
DecOnly == UNCHANGED <<connVars, ingVars, dbVars, fanVars, stoVars, statVars, concVars, subVars, batchVars, amtVars>>
IngOnly == UNCHANGED <<connVars, decVars, dbVars, fanVars, stoVars, statVars, concVars, subVars, batchVars, amtVars>>
FanOnly == UNCHANGED <<connVars, decVars, ingVars, stoVars, statVars, concVars, subVars, batchVars, amtVars>>
StoOnly == UNCHANGED <<connVars, decVars, ingVars, fanVars, subscribers, statVars, concVars, subVars, batchVars, amtVars>>
StatOnly == UNCHANGED <<connVars, decVars, ingVars, dbVars, fanVars, stoVars, concVars, subVars, batchVars, amtVars>>
ConcOnly == UNCHANGED <<connVars, decVars, ingVars, dbVars, fanVars, stoVars, statVars, subVars, batchVars, amtVars>>
SubOnly == UNCHANGED <<connVars, decVars, ingVars, transactions, fanVars, stoVars, statVars, concVars, batchVars, amtVars>>
BatchOnly == UNCHANGED <<connVars, decVars, ingVars, fanVars, stoVars, statVars, concVars, subVars, amtVars>>
AmtOnly == UNCHANGED <<connVars, decVars, ingVars, dbVars, fanVars, stoVars, statVars, concVars, subVars, batchVars>>

\* no frame is read
NoFrame == UNCHANGED frameVars

(***************************************************************************)
(* Connection manager                                                      *)
(***************************************************************************)

\* websocket.py:27 and :55: the base delay
BaseDelay == 5

\* websocket.py:28: self.max_reconnect_delay
MaxReconnectDelay == 300

\* the longest run of consecutive failures the model follows
MaxFailRun == 8

\* Python's None for subscription_id
None == 0

\* the identifiers the node may return to ledger.subscribe
SubIds == {1, 2}

Min(a, b) == IF a < b THEN a ELSE b

RECURSIVE Pow2(_)
Pow2(n) == IF n = 0 THEN 1 ELSE 2 * Pow2(n - 1)

\* the k-th sleep of a run of failures, as the specification states it
BackoffOf(k) == Min(BaseDelay * Pow2(k - 1), MaxReconnectDelay)

\* the doubling without the cap of websocket.py:40
NextDelay_Uncapped(d) == d * 2

\* websocket.py:40: the delay after a backoff sleep
NextDelay(d) == Min(d * 2, MaxReconnectDelay)

\* websocket.py:34: the loop head of start(), reached synchronously after an
\* iteration ends
LoopHead == IF running THEN "connecting" ELSE "returned"

ConnInit ==
    /\ running = FALSE
    /\ ws = "none"
    /\ subscription_id = None
    /\ reconnect_delay = BaseDelay
    /\ spc = "init"
    /\ stpc = "none"
    /\ serverSub = FALSE
    /\ failRun = 0
    /\ sleepDur = 0
    /\ subAfterStop = FALSE
    /\ connAfterStop = FALSE
    /\ lastFrame = "none"
    /\ nMalformed = 0
    /\ nHandled = 0
    /\ lastSub = None
    /\ nProcessed = 0
    /\ prevSub = None
    /\ ws_connected = FALSE

\* bot.py:83 with handlers.py:19-21: ZenonBridgeBot.start() calls
\* set_ws_status(True) before it creates the task that runs the connection
\* manager's start(); no other call of set_ws_status exists
SetWsStatus ==
    /\ ConnOnly
    /\ NoFrame
    /\ spc = "init"
    /\ ~ws_connected
    /\ ws_connected' = TRUE
    /\ UNCHANGED <<running, ws, subscription_id, reconnect_delay, spc, stpc,
                   serverSub, failRun, sleepDur, subAfterStop, connAfterStop,
                   prevSub>>

\* websocket.py:31-36: start() sets the flag, enters the loop and awaits
\* websockets.connect; bot.py:88 creates its task after set_ws_status
Start ==
    /\ ConnOnly
    /\ NoFrame
    /\ spc = "init"
    /\ ws_connected
    /\ running' = TRUE
    /\ spc' = "connecting"
    /\ UNCHANGED <<ws, subscription_id, reconnect_delay, stpc, serverSub,
                   failRun, sleepDur, subAfterStop, connAfterStop,
                   prevSub, ws_connected>>

\* websocket.py:37-39: an exception leaves _connect and start() sleeps for the
\* current delay
EnterSleep ==
    /\ spc' = "sleeping"
    /\ sleepDur' = reconnect_delay
    /\ failRun' = failRun + 1

\* websocket.py:53: websockets.connect raises
ConnectFail ==
    /\ ConnOnly
    /\ NoFrame
    /\ spc = "connecting"
    /\ failRun < MaxFailRun
    /\ EnterSleep
    /\ UNCHANGED <<running, ws, subscription_id, reconnect_delay, stpc,
                   serverSub, subAfterStop, connAfterStop,
                   prevSub, ws_connected>>

\* websocket.py:53-58 and 70-79: the connection opens, self.ws is set, the
\* delay is reset and the subscribe request is sent
ConnectOk ==
    /\ ConnOnly
    /\ NoFrame
    /\ spc = "connecting"
    /\ ws' = "open"
    /\ reconnect_delay' = BaseDelay
    /\ spc' = "subscribing"
    /\ serverSub' = FALSE
    /\ connAfterStop' = (connAfterStop \/ ~running)
    /\ subAfterStop' = (subAfterStop \/ ~running)
    /\ UNCHANGED <<running, subscription_id, stpc, failRun, sleepDur,
                   prevSub, ws_connected>>

\* websocket.py:82-87: the node answers with a result, the subscription id
SubscribeOk(id) ==
    /\ ConnOnly
    /\ NoFrame
    /\ spc = "subscribing"
    /\ ws = "open"
    /\ subscription_id' = id
    /\ serverSub' = TRUE
    /\ spc' = "streaming"
    /\ failRun' = 0
    /\ prevSub' = subscription_id
    /\ UNCHANGED <<running, ws, reconnect_delay, stpc, sleepDur,
                   subAfterStop, connAfterStop, ws_connected>>

\* websocket.py:79-89: send or recv raises, the answer is no JSON or holds no
\* result; the async with block closes the transport on the way out
SubscribeFail ==
    /\ ConnOnly
    /\ NoFrame
    /\ spc = "subscribing"
    /\ failRun < MaxFailRun
    /\ ws' = "closed"
    /\ serverSub' = FALSE
    /\ EnterSleep
    /\ UNCHANGED <<running, subscription_id, reconnect_delay, stpc,
                   subAfterStop, connAfterStop,
                   prevSub, ws_connected>>

\* websocket.py:61: the iteration over the connection raises (connection lost)
StreamError ==
    /\ ConnOnly
    /\ NoFrame
    /\ spc = "streaming"
    /\ failRun < MaxFailRun
    /\ ws' = "closed"
    /\ serverSub' = FALSE
    /\ EnterSleep
    /\ UNCHANGED <<running, subscription_id, reconnect_delay, stpc,
                   subAfterStop, connAfterStop,
                   prevSub, ws_connected>>

\* websocket.py:61 and 34: the iteration ends because the connection was
\* closed normally; _connect returns and the loop head runs at once
StreamClosed ==
    /\ ConnOnly
    /\ NoFrame
    /\ spc = "streaming"
    /\ ws' = "closed"
    /\ serverSub' = FALSE
    /\ spc' = LoopHead
    /\ UNCHANGED <<running, subscription_id, reconnect_delay, stpc, failRun,
                   sleepDur, subAfterStop, connAfterStop,
                   prevSub, ws_connected>>

\* SleepDone with a start() that gives up after the sleep
SleepDone_Returns ==
    /\ ConnOnly
    /\ NoFrame
    /\ spc = "sleeping"
    /\ reconnect_delay' = NextDelay(reconnect_delay)
    /\ sleepDur' = 0
    /\ spc' = "returned"
    /\ UNCHANGED <<running, ws, subscription_id, stpc, serverSub, failRun,
                   subAfterStop, connAfterStop,
                   prevSub, ws_connected>>

\* websocket.py:39-40 and 34: the sleep ends, the delay doubles up to the
\* maximum, the loop head runs
SleepDone ==
    /\ ConnOnly
    /\ NoFrame
    /\ spc = "sleeping"
    /\ reconnect_delay' = NextDelay(reconnect_delay)
    /\ sleepDur' = 0
    /\ spc' = LoopHead
    /\ UNCHANGED <<running, ws, subscription_id, stpc, serverSub, failRun,
                   subAfterStop, connAfterStop,
                   prevSub, ws_connected>>

\* websocket.py:42-47 with 91-100: stop() clears the flag; with a transport
\* object it sends the unsubscribe (when an id is held) and starts the close
StopCall ==
    /\ ConnOnly
    /\ NoFrame
    /\ stpc = "none"
    /\ spc # "init"
    /\ running' = FALSE
    /\ IF ws = "none"
         THEN stpc' = "done" /\ serverSub' = serverSub
         ELSE IF ws = "closed"
                THEN /\ stpc' = IF subscription_id # None THEN "raised" ELSE "done"
                     /\ serverSub' = serverSub
                ELSE /\ stpc' = "closing"
                     /\ serverSub' = IF subscription_id # None THEN FALSE ELSE serverSub
    /\ UNCHANGED <<ws, subscription_id, reconnect_delay, spc, failRun,
                   sleepDur, subAfterStop, connAfterStop,
                   prevSub, ws_connected>>

\* websocket.py:47: the close of the transport completes
StopClose ==
    /\ ConnOnly
    /\ NoFrame
    /\ stpc = "closing"
    /\ ws' = "closed"
    /\ serverSub' = FALSE
    /\ stpc' = "done"
    /\ UNCHANGED <<running, subscription_id, reconnect_delay, spc, failRun,
                   sleepDur, subAfterStop, connAfterStop,
                   prevSub, ws_connected>>

\* the frames the model follows
MaxFrames == 2

\* the stream iteration without the except clauses of websocket.py:65-68: the
\* JSONDecodeError leaves _connect like a lost connection
MalformedFrame_Raises ==
    /\ ConnOnly
    /\ spc = "streaming"
    /\ nMalformed + nHandled < MaxFrames
    /\ failRun < MaxFailRun
    /\ lastFrame' = "malformed"
    /\ nMalformed' = nMalformed + 1
    /\ ws' = "closed"
    /\ serverSub' = FALSE
    /\ EnterSleep
    /\ UNCHANGED <<running, subscription_id, reconnect_delay, stpc,
                   subAfterStop, connAfterStop, nHandled,
                   lastSub, nProcessed, prevSub, ws_connected>>

\* websocket.py:61-66: a frame that is no JSON; json.loads raises
\* JSONDecodeError, which is logged, and the iteration goes on
MalformedFrame ==
    /\ ConnOnly
    /\ spc = "streaming"
    /\ nMalformed + nHandled < MaxFrames
    /\ lastFrame' = "malformed"
    /\ nMalformed' = nMalformed + 1
    /\ UNCHANGED <<running, ws, subscription_id, reconnect_delay, spc, stpc,
                   serverSub, failRun, sleepDur, subAfterStop, connAfterStop,
                   nHandled,
                   lastSub, nProcessed, prevSub, ws_connected>>

\* the method of a message: the push notification, or anything else (the
\* answer to a request has none)
Methods == {"ledger.subscription", "other"}

\* params.get('subscription') of a notification: an id, or None without the key
FrameSubs == SubIds \cup {None}

\* _handle_message without the comparison of websocket.py:114
handle_message_AnyId(sid, method, sub, result) ==
    /\ method = "ledger.subscription"
    /\ result

\* websocket.py:112-119: _process_account_block is called for a notification
\* that carries the id held in self.subscription_id and a truthy result
handle_message(sid, method, sub, result) ==
    /\ method = "ledger.subscription"
    /\ sub = sid
    /\ result

\* websocket.py:61-68: a JSON frame is passed to _handle_message; what the
\* handler raises is logged, and the iteration goes on
\* the messages differ in their method, in params.subscription (None: the key
\* is missing) and in whether params.result is truthy
JsonFrame ==
    /\ ConnOnly
    /\ spc = "streaming"
    /\ nMalformed + nHandled < MaxFrames
    /\ lastFrame' = "handled"
    /\ nHandled' = nHandled + 1
    /\ \E method \in Methods, sub \in FrameSubs, result \in BOOLEAN :
          /\ lastSub' = IF method = "ledger.subscription" THEN sub ELSE None
          /\ nProcessed' = IF handle_message(subscription_id, method, sub, result)
                              THEN nProcessed + 1
                              ELSE nProcessed
    /\ UNCHANGED <<running, ws, subscription_id, reconnect_delay, spc, stpc,
                   serverSub, failRun, sleepDur, subAfterStop, connAfterStop,
                   nMalformed, prevSub, ws_connected>>

\* websocket.py:61-68: the frames after the ones that are counted; only their
\* kind is recorded
LaterFrame ==
    /\ ConnOnly
    /\ spc = "streaming"
    /\ nMalformed + nHandled = MaxFrames
    /\ lastFrame' = IF lastFrame = "malformed" THEN "handled" ELSE "malformed"
    /\ UNCHANGED <<running, ws, subscription_id, reconnect_delay, spc, stpc,
                   serverSub, failRun, sleepDur, subAfterStop, connAfterStop,
                   nMalformed, nHandled,
                   lastSub, nProcessed, prevSub, ws_connected>>

ConnNext ==
    \/ SetWsStatus
    \/ Start
    \/ ConnectFail
    \/ ConnectOk
    \/ \E id \in SubIds : SubscribeOk(id)
    \/ SubscribeFail
    \/ StreamError
    \/ StreamClosed
    \/ SleepDone
    \/ StopCall
    \/ StopClose
    \/ MalformedFrame
    \/ JsonFrame
    \/ LaterFrame

(***************************************************************************)
(* Events and the classifier                                               *)
(***************************************************************************)

\* config.py:11, decoder.py:60
BRIDGE_ADDRESS == "z1qxemdeddedxdrydgexxxxxxxxxxxxxxxmqgr0d"

\* websocket.py:127
BURN_ADDRESS == "z1qqqqqqqqqqqqqqqqqqqqqqqqqqqqqqqqsggv2f"

\* two accounts that are neither the bridge nor the burn address
USER_A == "z1user"
USER_B == "z1other"

\* config.py:34-35, websocket.py:205, decoder.py:94
ZNN == "zts1znnxxxxxxxxxxxxx9z4ulx"
QSR == "zts1qsrxxxxxxxxxxxxxmrhjll"

\* websocket.py:222: the zero/system token
SYSTEM_ZTS == "zts1qqqqqqqqqqqqqqqqtq587y"

\* a token standard that is none of the above
OTHER_ZTS == "zts1other"

\* a key the JSON object does not hold, and Python's None
Absent == "<absent>"
PyNone == "<None>"

\* dict.get(key, default)
Get(v, default) == IF v = Absent THEN default ELSE v

\* Python truthiness of a string-or-None value
Truthy(s) == s \notin {Absent, PyNone, ""}

\* decoder.py:16-22: self.method_signatures, as byte sequences
WRAP_SIG == <<97, 210, 36, 188>>
UNWRAP_SIG == <<82, 41, 136, 88>>
REDEEM_SIG == <<30, 131, 64, 154>>
UPDATE_SIG == <<212, 187, 17, 192>>

method_signatures ==
    [WRAP_TOKEN |-> WRAP_SIG, UNWRAP_TOKEN |-> UNWRAP_SIG,
     REDEEM |-> REDEEM_SIG, UPDATE_WRAP_REQUEST |-> UPDATE_SIG]

\* config.py:24-30
TRANSACTION_TYPES ==
    [WRAP_TOKEN |-> "WrapToken", UNWRAP_TOKEN |-> "UnwrapToken",
     REDEEM |-> "Redeem", TRANSFER |-> "Transfer",
     UPDATE_WRAP_REQUEST |-> "UpdateWrapRequest"]

\* TRANSACTION_TYPES.get(method, 'Unknown')
TypeOfMethod(m) ==
    IF m \in DOMAIN TRANSACTION_TYPES THEN TRANSACTION_TYPES[m] ELSE "Unknown"

(* The data field of an event: absent, a base64 string that decodes to bytes  *)
(* ("b64"; the empty byte string is the empty string ''), or a non-empty       *)
(* string base64.b64decode raises on ("bad").                               *)
NoData == [kind |-> "absent", bytes |-> <<>>]
BadData == [kind |-> "bad", bytes |-> <<>>]
B64(bs) == [kind |-> "b64", bytes |-> bs]

PayloadBytes ==
    {<<97, 210, 36>>,                  \* shorter than a signature
     WRAP_SIG, WRAP_SIG \o <<1>>, UNWRAP_SIG, REDEEM_SIG, UPDATE_SIG,
     <<222, 173, 190, 239>>}           \* four bytes in no table entry

Payloads ==
    {NoData, BadData}
        \cup {B64(bs) : bs \in PayloadBytes}

\* confirmationDetail.momentumTimestamp: 0 stands for a missing detail (or 0)
Timestamps == {0, 1700000000}

Senders == {BRIDGE_ADDRESS, USER_A, USER_B}
Recipients == {BRIDGE_ADDRESS, USER_A, BURN_ADDRESS}
Tokens == {ZNN, QSR, SYSTEM_ZTS, OTHER_ZTS, Absent}
Amounts == {"0", "7", Absent}

\* a RawLedgerEvent without its paired event
Blocks ==
    [address : Senders, toAddress : Recipients, tokenStandard : Tokens,
     amount : Amounts, data : Payloads, ts : Timestamps]

\* tx_data.get('data') and tx_data['data'] != ''
HasData(block) ==
    \/ block.data.kind = "bad"
    \/ block.data.kind = "b64" /\ block.data.bytes # <<>>

\* decoder.py:67: base64.b64decode succeeds
Decodes(block) == block.data.kind = "b64"

\* decoder.py:71: data_bytes[:4]
Prefix4(bs) == SubSeq(bs, 1, 4)

\* decoder.py:76-79: the methods whose signature equals the prefix
MatchingMethods(sig) ==
    {m \in DOMAIN method_signatures : method_signatures[m] = sig}

\* SignatureType with the length test off by one (len(data_bytes) > 4)
SignatureType_LongerThan4(block) ==
    IF HasData(block) /\ Decodes(block) /\ Len(block.data.bytes) > 4
      THEN LET ms == MatchingMethods(Prefix4(block.data.bytes))
           IN IF ms # {} THEN TypeOfMethod(CHOOSE m \in ms : TRUE)
                         ELSE "Unknown"
      ELSE "fallthrough"

\* decoder.py:64-86: the signature branch; "fallthrough" when it returns nothing
SignatureType(block) ==
    IF HasData(block) /\ Decodes(block) /\ Len(block.data.bytes) >= 4
      THEN LET ms == MatchingMethods(Prefix4(block.data.bytes))
           IN IF ms # {} THEN TypeOfMethod(CHOOSE m \in ms : TRUE)
                         ELSE "Unknown"
      ELSE "fallthrough"

\* the heuristics with the FROM-bridge test ahead of the TO-bridge test
HeuristicType_FromFirst(block) ==
    LET to_addr == Get(block.toAddress, "")
        from_addr == Get(block.address, "")
        token_std == Get(block.tokenStandard, "")
        amount == Get(block.amount, "0")
    IN IF from_addr = BRIDGE_ADDRESS /\ Truthy(token_std) /\ amount # "0"
         THEN TRANSACTION_TYPES["UNWRAP_TOKEN"]
       ELSE IF to_addr = BRIDGE_ADDRESS /\ token_std \in {ZNN, QSR} /\ amount # "0"
         THEN TRANSACTION_TYPES["WRAP_TOKEN"]
       ELSE IF ~HasData(block) /\ to_addr # from_addr
               /\ to_addr # BRIDGE_ADDRESS /\ from_addr # BRIDGE_ADDRESS
         THEN TRANSACTION_TYPES["TRANSFER"]
       ELSE "Unknown"

\* decoder.py:88-117: the address heuristics
HeuristicType(block) ==
    LET to_addr == Get(block.toAddress, "")
        from_addr == Get(block.address, "")
        token_std == Get(block.tokenStandard, "")
        amount == Get(block.amount, "0")
    IN IF to_addr = BRIDGE_ADDRESS /\ token_std \in {ZNN, QSR} /\ amount # "0"
         THEN TRANSACTION_TYPES["WRAP_TOKEN"]
       ELSE IF from_addr = BRIDGE_ADDRESS /\ Truthy(token_std) /\ amount # "0"
         THEN TRANSACTION_TYPES["UNWRAP_TOKEN"]
       ELSE IF ~HasData(block) /\ to_addr # from_addr
               /\ to_addr # BRIDGE_ADDRESS /\ from_addr # BRIDGE_ADDRESS
         THEN TRANSACTION_TYPES["TRANSFER"]
       ELSE "Unknown"

\* decoder.py:56-117
determine_tx_type(block) ==
    IF SignatureType(block) # "fallthrough" THEN SignatureType(block)
                                            ELSE HeuristicType(block)

\* decoder.py:161-169: None (0) without a truthy momentumTimestamp
get_timestamp(block) == block.ts

\* a decoder that remembers it has been called: every call after the first
\* takes the type from the heuristics alone
decode_transaction_Stateful(block) ==
    [from_addr |-> Get(block.address, PyNone),
     to_addr |-> Get(block.toAddress, PyNone),
     amount |-> Get(block.amount, "0"),
     token |-> Get(block.tokenStandard, PyNone),
     timestamp |-> get_timestamp(block),
     type |-> IF dcalls > 0 THEN HeuristicType(block) ELSE determine_tx_type(block)]

\* decoder.py:24-54
decode_transaction(block) ==
    [from_addr |-> Get(block.address, PyNone),
     to_addr |-> Get(block.toAddress, PyNone),
     amount |-> Get(block.amount, "0"),
     token |-> Get(block.tokenStandard, PyNone),
     timestamp |-> get_timestamp(block),
     type |-> determine_tx_type(block)]

\* websocket.py:196
valid_types == {"WrapToken", "UnwrapToken", "Redeem", "UpdateWrapRequest"}

\* websocket.py:205
valid_tokens == {ZNN, QSR}

\* the filter without the zero-amount test of websocket.py:214-217
is_valid_NoAmountTest(tx) ==
    IF tx.type \notin valid_types THEN FALSE
    ELSE IF tx.type \in {"WrapToken", "UnwrapToken"}
           THEN tx.token \in valid_tokens
           ELSE TRUE

\* the filter without the type test of websocket.py:199-201
is_valid_NoTypeTest(tx) ==
    IF tx.type \in {"WrapToken", "UnwrapToken"}
      THEN tx.token \in valid_tokens /\ tx.amount # "0"
      ELSE TRUE

\* the filter with a token test for the contract calls in place of the log
\* statement of websocket.py:221-224
is_valid_CallsNeedToken(tx) ==
    IF tx.type \notin valid_types THEN FALSE
    ELSE IF tx.type \in {"WrapToken", "UnwrapToken"}
           THEN tx.token \in valid_tokens /\ tx.amount # "0"
           ELSE ~Truthy(tx.token) \/ tx.token \in valid_tokens \/ tx.token = SYSTEM_ZTS

\* websocket.py:193-226
is_valid_bridge_transaction(tx) ==
    IF tx.type \notin valid_types THEN FALSE
    ELSE IF tx.type \in {"WrapToken", "UnwrapToken"}
           THEN tx.token \in valid_tokens /\ tx.amount # "0"
           ELSE TRUE

\* an event that touches no monitored address, and the record of no Transaction
NoBlock ==
    [address |-> USER_A, toAddress |-> USER_A, tokenStandard |-> Absent,
     amount |-> Absent, data |-> NoData, ts |-> 0]

NoTx ==
    [from_addr |-> PyNone, to_addr |-> PyNone, amount |-> "0", token |-> PyNone,
     timestamp |-> 0, type |-> "none"]

\* the classifier is given the event `block`
DecInitWith(block) ==
    /\ dblk = block
    /\ dtx = NoTx
    /\ dvalid = FALSE
    /\ ddone = FALSE
    /\ dtx2 = NoTx
    /\ dlast = "none"
    /\ dcalls = 0

DecIdle == DecInitWith(NoBlock)

DecInit == \E block \in Blocks : DecInitWith(block)

\* decoder.py:24-54 and websocket.py:193-226 applied to the event
Decode ==
    /\ DecOnly
    /\ ~ddone
    /\ dtx' = decode_transaction(dblk)
    /\ dvalid' = is_valid_bridge_transaction(decode_transaction(dblk))
    /\ ddone' = TRUE
    /\ dcalls' = dcalls + 1
    /\ UNCHANGED <<dblk, dtx2, dlast>>

\* the decode calls the model follows
MaxDecodes == 3

\* events decoded between two decodes of the same event
OtherBlocks ==
    {b \in Blocks : /\ b.address = BRIDGE_ADDRESS /\ b.toAddress = USER_A
                    /\ b.tokenStandard = ZNN /\ b.amount = "7" /\ b.ts = 0}

\* decoder.py:24-54: the decoder is given another event
DecodeOther ==
    /\ DecOnly
    /\ ddone
    /\ dtx2 = NoTx
    /\ dcalls < MaxDecodes
    /\ \E other \in OtherBlocks : dlast' = decode_transaction(other).type
    /\ dcalls' = dcalls + 1
    /\ UNCHANGED <<dblk, dtx, dvalid, ddone, dtx2>>

\* decoder.py:24-54: the decoder is given an event with the content of the
\* first one again
DecodeAgain ==
    /\ DecOnly
    /\ ddone
    /\ dtx2 = NoTx
    /\ dcalls < MaxDecodes
    /\ dtx2' = decode_transaction(dblk)
    /\ dcalls' = dcalls + 1
    /\ UNCHANGED <<dblk, dtx, dvalid, ddone, dlast>>

DecNext ==
    \/ Decode
    \/ DecodeOther
    \/ DecodeAgain

(***************************************************************************)
(* The ingestion loop: _process_account_block                              *)
(***************************************************************************)

\* the largest number of events one notification carries
MaxBlocks == 2

\* websocket.py:155 and 169: json.dump(tx_info) raises TypeError on a datetime,
\* which is what 'timestamp' holds when the event has a confirmation timestamp
JsonSerializable(tx) == tx.timestamp = 0

\* websocket.py:145 and 160: the block's sender or recipient is the bridge
TouchesBridge(block) ==
    \/ Get(block.address, "") = BRIDGE_ADDRESS
    \/ Get(block.toAddress, "") = BRIDGE_ADDRESS

\* websocket.py:149-150: decode, then the validity filter
Accepted(block) == is_valid_bridge_transaction(decode_transaction(block))

\* websocket.py:145-171: the callbacks the primary stage sets out to make, in
\* order: one in the FROM-bridge branch, one in the TO-bridge branch
FromBranch(block) ==
    IF Get(block.address, "") = BRIDGE_ADDRESS /\ Accepted(block)
      THEN <<decode_transaction(block)>> ELSE <<>>

ToBranch(block) ==
    IF Get(block.toAddress, "") = BRIDGE_ADDRESS /\ Accepted(block)
      THEN <<decode_transaction(block)>> ELSE <<>>

\* websocket.py:139-142: the burn check of the primary block
SkippedAsBurn(block) == Get(block.toAddress, "") = BURN_ADDRESS

PrimaryIntended(block) ==
    IF SkippedAsBurn(block) THEN <<>> ELSE FromBranch(block) \o ToBranch(block)

\* the paired stage without the burn test of websocket.py:175
PairedIntended_NoBurnTest(block) ==
    IF TouchesBridge(block) /\ Accepted(block)
      THEN <<decode_transaction(block)>> ELSE <<>>

\* the paired stage without the address test of websocket.py:179
PairedIntended_NoAddressTest(block) ==
    IF /\ Get(block.toAddress, PyNone) # BURN_ADDRESS
       /\ Accepted(block)
      THEN <<decode_transaction(block)>> ELSE <<>>

\* websocket.py:174-184: the callback the paired stage sets out to make
PairedIntended(block) ==
    IF /\ Get(block.toAddress, PyNone) # BURN_ADDRESS
       /\ TouchesBridge(block)
       /\ Accepted(block)
      THEN <<decode_transaction(block)>> ELSE <<>>

(* The callbacks made out of `intended`. With `dump` each is preceded by the   *)
(* debug-file write (websocket.py:154-155, 168-169), which raises when the      *)
(* Transaction is not serializable; the callback number failAt raises          *)
(* (0: none does). The first exception ends the stage (websocket.py:186).      *)
RunCalls(intended, dump, failAt) ==
    LET stops == {i \in 1..Len(intended) :
                    \/ dump /\ ~JsonSerializable(intended[i])
                    \/ i = failAt}
    IN IF stops = {} THEN [calls |-> intended, raised |-> FALSE]
       ELSE LET i == CHOOSE j \in stops : \A k \in stops : j <= k
            IN [calls |-> IF dump /\ ~JsonSerializable(intended[i])
                            THEN SubSeq(intended, 1, i - 1)
                            ELSE SubSeq(intended, 1, i),
                raised |-> TRUE]

PrimaryOutcome(block, r) ==
    IF SkippedAsBurn(block) THEN "burn"
    ELSE IF r.raised THEN "raised"
    ELSE IF r.calls # <<>> THEN "delivered"
    ELSE IF TouchesBridge(block) THEN "rejected"
    ELSE "unrelated"

PairedOutcome(block, r) ==
    IF Get(block.toAddress, PyNone) = BURN_ADDRESS THEN "burn"
    ELSE IF r.raised THEN "raised"
    ELSE IF r.calls # <<>> THEN "delivered"
    ELSE IF TouchesBridge(block) THEN "rejected"
    ELSE "unrelated"

\* the loop taking the events of a notification from the last to the first
EventIndex_Reversed(size, rem) == rem

\* websocket.py:135: for block in blocks takes the events first to last; the
\* position of the next event when `rem` of `size` are still to be looked at
EventIndex(size, rem) == size - rem + 1

\* the observer's entries for the callbacks `made`
Tagged(made, idx, stage) == [i \in 1..Len(made) |-> <<idx, stage>>]

IngInit ==
    /\ ipc = "idle"
    /\ blk = NoBlock
    /\ hasPaired = FALSE
    /\ calls = <<>>
    /\ outcome = "none"
    /\ primOutcome = "none"
    /\ remaining = 0
    /\ aborted = FALSE
    /\ nsize = 0
    /\ evIdx = 0
    /\ cbLog = <<>>

\* websocket.py:112-119 and 133: a notification of this subscription carries n
\* events
ReceiveNotification(n) ==
    /\ IngOnly
    /\ ipc = "idle"
    /\ ipc' = "loop"
    /\ remaining' = n
    /\ nsize' = n
    /\ evIdx' = 0
    /\ cbLog' = <<>>
    /\ aborted' = FALSE
    /\ outcome' = "none"
    /\ primOutcome' = "none"
    /\ UNCHANGED <<blk, hasPaired, calls>>

\* websocket.py:135-171: the loop body up to the paired block, for the next
\* event `block` of the notification; `paired` says whether it carries a paired
\* block, failAt which of its callbacks raises
ProcessPrimary ==
    /\ IngOnly
    /\ ipc = "loop"
    /\ \E block \in Blocks, paired \in BOOLEAN :
         LET intended == PrimaryIntended(block)
         IN \E failAt \in 0..Len(intended) :
              LET r == RunCalls(intended, TRUE, failAt)
              IN /\ calls' = r.calls
                 /\ cbLog' = cbLog \o Tagged(r.calls, EventIndex(nsize, remaining), 1)
                 /\ outcome' = PrimaryOutcome(block, r)
                 /\ primOutcome' = PrimaryOutcome(block, r)
                 /\ aborted' = r.raised
                 /\ blk' = block
                 /\ hasPaired' = paired
    /\ evIdx' = EventIndex(nsize, remaining)
    /\ remaining' = remaining - 1
    /\ ipc' = "primary"
    /\ UNCHANGED nsize

\* websocket.py:142 (continue), 174-175 and 186: where the loop goes after the
\* primary stage
AfterPrimary ==
    /\ IngOnly
    /\ ipc = "primary"
    /\ ipc' = IF aborted THEN "idle"
              ELSE IF outcome # "burn" /\ hasPaired THEN "pending"
              ELSE IF remaining > 0 THEN "loop" ELSE "idle"
    /\ blk' = NoBlock
    /\ calls' = <<>>
    /\ hasPaired' = FALSE
    /\ outcome' = "none"
    /\ UNCHANGED <<primOutcome, remaining, aborted, nsize, evIdx, cbLog>>

\* websocket.py:174-184: the paired block `block` of the current event; failAt
\* says whether its callback raises
ProcessPaired ==
    /\ IngOnly
    /\ ipc = "pending"
    /\ \E block \in Blocks :
         LET intended == PairedIntended(block)
         IN \E failAt \in 0..Len(intended) :
              LET r == RunCalls(intended, FALSE, failAt)
              IN /\ calls' = r.calls
                 /\ cbLog' = cbLog \o Tagged(r.calls, evIdx, 2)
                 /\ outcome' = PairedOutcome(block, r)
                 /\ aborted' = r.raised
                 /\ blk' = block
    /\ ipc' = "paired"
    /\ UNCHANGED <<hasPaired, primOutcome, remaining, nsize, evIdx>>

\* websocket.py:135 and 186: the next iteration, the end of the loop, or the
\* except clause
AfterPaired ==
    /\ IngOnly
    /\ ipc = "paired"
    /\ ipc' = IF aborted THEN "idle"
              ELSE IF remaining > 0 THEN "loop" ELSE "idle"
    /\ blk' = NoBlock
    /\ calls' = <<>>
    /\ outcome' = "none"
    /\ UNCHANGED <<hasPaired, primOutcome, remaining, aborted, nsize, evIdx, cbLog>>

IngNext ==
    \/ \E n \in 1..MaxBlocks : ReceiveNotification(n)
    \/ ProcessPrimary
    \/ AfterPrimary
    \/ ProcessPaired
    \/ AfterPaired

(***************************************************************************)
(* The database and the fanout                                             *)
(***************************************************************************)

\* the user ids that take part: three, as many as the fanout example of the
\* specification has subscribers
Users == {1, 2, 3}

\* the commands handled while one dispatch is running
MaxMidCmds == 1

\* database.py:85 and handlers.py:95-99: the types a filter may name
valid_filters == {"WrapToken", "UnwrapToken", "Redeem"}

\* the filter lists the /filter command stores (handlers.py:116-136), as sets
FilterChoices == {{}, {"WrapToken"}, {"Redeem"}}

\* the hashes and Transactions that are dispatched
Hashes == {"h1", "h2"}
FanoutTypes == {"WrapToken", "UnwrapToken", "Redeem"}
FanoutTxs == [hash : {"h1"}, type : FanoutTypes, timestamp : {0}]

\* the Transactions add_transaction is called with on its own
StoreTxs == [hash : Hashes, type : FanoutTypes, timestamp : Timestamps]

\* no row of table subscribers / transactions
NoSubscriber ==
    [present |-> FALSE, active |-> FALSE, filters |-> {}, username |-> "",
     created_at |-> 0]
NoRow == [present |-> FALSE, type |-> "none", timestamp |-> 0]

\* database.py:13-38: the tables as init_database creates them
DbInit ==
    /\ subscribers = [u \in Users |-> NoSubscriber]
    /\ transactions = [h \in Hashes |-> NoRow]

\* database.py:56-63: INSERT OR REPLACE writes a new row; filters and
\* created_at take the column defaults '[]' and CURRENT_TIMESTAMP
add_subscriber(subs, u, username, now) ==
    [subs EXCEPT ![u] = [present |-> TRUE, active |-> TRUE, filters |-> {},
                         username |-> username, created_at |-> now]]

\* remove_subscriber as a DELETE of the row
remove_subscriber_Delete(subs, u) == [subs EXCEPT ![u] = NoSubscriber]

\* database.py:65-72
remove_subscriber(subs, u) ==
    IF subs[u].present THEN [subs EXCEPT ![u].active = FALSE] ELSE subs

\* database.py:104-111
update_subscriber_filters(subs, u, f) ==
    IF subs[u].present THEN [subs EXCEPT ![u].filters = f] ELSE subs

\* database.py:85-86: cleaned_filters
CleanFilters(f) == f \cap valid_filters

\* database.py:74-102: the table after the clean-up of the active rows
CleanedTable(subs) ==
    [u \in Users |->
        IF subs[u].present /\ subs[u].active
          THEN [subs[u] EXCEPT !.filters = CleanFilters(subs[u].filters)]
          ELSE subs[u]]

\* the users in `us`, as a list in ascending user_id (rowid) order
RECURSIVE AscendingList(_)
AscendingList(us) ==
    IF us = {} THEN <<>>
    ELSE LET u == CHOOSE x \in us : \A y \in us : x <= y
         IN <<u>> \o AscendingList(us \ {u})

\* get_active_subscribers without the WHERE active = 1 of database.py:78
get_active_subscribers_AllRows(subs) ==
    LET rows == {u \in Users : subs[u].present}
        order == AscendingList(rows)
    IN [i \in 1..Len(order) |->
          [user_id |-> order[i], filters |-> CleanFilters(subs[order[i]].filters)]]

\* database.py:74-102: the list get_active_subscribers returns
get_active_subscribers(subs) ==
    LET active == {u \in Users : subs[u].present /\ subs[u].active}
        order == AscendingList(active)
    IN [i \in 1..Len(order) |->
          [user_id |-> order[i], filters |-> CleanFilters(subs[order[i]].filters)]]

\* database.py:122-137: INSERT OR IGNORE keeps the row a hash already has
add_transaction(txs, tx) ==
    IF txs[tx.hash].present THEN txs
    ELSE [txs EXCEPT ![tx.hash] =
            [present |-> TRUE, type |-> tx.type, timestamp |-> tx.timestamp]]

\* the filter test without the emptiness test of handlers.py:160
FilteredOut_EmptyBlocks(sub, tx) == tx.type \notin sub.filters

\* handlers.py:159-161: the subscriber is skipped
FilteredOut(sub, tx) == sub.filters # {} /\ tx.type \notin sub.filters

\* no call of add_transaction has been made
StoInit ==
    /\ stx = [hash |-> "h1", type |-> "none", timestamp |-> 0]
    /\ sBefore = NoRow
    /\ sRet = "none"
    /\ sCalls = 0

Zeroes == [u \in Users |-> 0]
NoResults == [u \in Users |-> "none"]

FanInit ==
    /\ fpc = "idle"
    /\ ftx = [hash |-> "h1", type |-> "none", timestamp |-> 0]
    /\ flist = <<>>
    /\ fi = 0
    /\ midCmds = 0
    /\ evals = Zeroes
    /\ attempts = Zeroes
    /\ results = NoResults
    /\ storeRes = "none"

\* a command may be handled now: always between dispatches, a bounded number of
\* times while one is running
CommandSlot ==
    /\ fpc \in {"idle", "store", "send"}
    /\ fpc # "idle" => midCmds < MaxMidCmds
    /\ midCmds' = IF fpc = "idle" THEN 0 ELSE midCmds + 1

\* handlers.py:23-28: /start
CmdStart ==
    /\ FanOnly
    /\ CommandSlot
    /\ \E u \in Users : subscribers' = add_subscriber(subscribers, u, "", 0)
    /\ UNCHANGED <<transactions, fpc, ftx, flist, fi, evals, attempts, results, storeRes>>

\* handlers.py:39-43: /stop
CmdStop ==
    /\ FanOnly
    /\ CommandSlot
    /\ \E u \in Users : subscribers' = remove_subscriber(subscribers, u)
    /\ UNCHANGED <<transactions, fpc, ftx, flist, fi, evals, attempts, results, storeRes>>

\* handlers.py:89-136: /filter
CmdFilter ==
    /\ FanOnly
    /\ CommandSlot
    /\ \E u \in Users, f \in FilterChoices :
         subscribers' = update_subscriber_filters(subscribers, u, f)
    /\ UNCHANGED <<transactions, fpc, ftx, flist, fi, evals, attempts, results, storeRes>>

\* handlers.py:148-151 (bot.py:46-49): on_transaction(tx) starts a dispatch; the
\* active subscribers are read, and their filters cleaned in the table
BeginDispatch ==
    /\ FanOnly
    /\ fpc = "idle"
    /\ \E tx \in FanoutTxs : ftx' = tx
    /\ flist' = get_active_subscribers(subscribers)
    /\ subscribers' = CleanedTable(subscribers)
    /\ fpc' = "store"
    /\ fi' = 0
    /\ midCmds' = 0
    /\ evals' = Zeroes
    /\ attempts' = Zeroes
    /\ results' = NoResults
    /\ storeRes' = "none"
    /\ UNCHANGED transactions

\* handlers.py:154 with database.py:113-141: the row is inserted unless the
\* hash is there
StoreOk ==
    /\ FanOnly
    /\ fpc = "store"
    /\ transactions' = add_transaction(transactions, ftx)
    /\ storeRes' = "ok"
    /\ fpc' = "send"
    /\ UNCHANGED <<subscribers, ftx, flist, fi, midCmds, evals, attempts, results>>

\* database.py:121-141: the INSERT or the commit raises; the except clause
\* prints it and add_transaction returns
StoreInsertFails ==
    /\ FanOnly
    /\ fpc = "store"
    /\ storeRes' = "insertfail"
    /\ fpc' = "send"
    /\ UNCHANGED <<subscribers, transactions, ftx, flist, fi, midCmds, evals,
                   attempts, results>>

\* database.py:115: aiosqlite.connect raises, outside the try block; the
\* exception leaves add_transaction and send_transaction_notification
StoreOpenFails ==
    /\ FanOnly
    /\ fpc = "store"
    /\ storeRes' = "openfail"
    /\ fpc' = "raised"
    /\ UNCHANGED <<subscribers, transactions, ftx, flist, fi, midCmds, evals,
                   attempts, results>>

\* SendStep without the try/except of handlers.py:163-171: a send_message
\* that raises ends the dispatch
SendStep_Unprotected ==
    /\ FanOnly
    /\ fpc = "send"
    /\ fi < Len(flist)
    /\ LET sub == flist[fi + 1]
           u == sub.user_id
       IN /\ evals' = [evals EXCEPT ![u] = @ + 1]
          /\ IF FilteredOut(sub, ftx)
               THEN /\ results' = [results EXCEPT ![u] = "filtered"]
                    /\ attempts' = attempts
                    /\ fpc' = fpc
               ELSE /\ attempts' = [attempts EXCEPT ![u] = @ + 1]
                    /\ \E ok \in BOOLEAN :
                         /\ results' = [results EXCEPT
                                          ![u] = IF ok THEN "delivered" ELSE "failed"]
                         /\ fpc' = IF ok THEN fpc ELSE "raised"
    /\ fi' = fi + 1
    /\ UNCHANGED <<subscribers, transactions, ftx, flist, midCmds, storeRes>>

\* handlers.py:157-171: one iteration of the loop over the list; `ok` says
\* whether send_message returns or raises
SendStep ==
    /\ FanOnly
    /\ fpc = "send"
    /\ fi < Len(flist)
    /\ LET sub == flist[fi + 1]
           u == sub.user_id
       IN /\ evals' = [evals EXCEPT ![u] = @ + 1]
          /\ IF FilteredOut(sub, ftx)
               THEN /\ results' = [results EXCEPT ![u] = "filtered"]
                    /\ attempts' = attempts
               ELSE /\ attempts' = [attempts EXCEPT ![u] = @ + 1]
                    /\ \E ok \in BOOLEAN :
                         results' = [results EXCEPT
                                       ![u] = IF ok THEN "delivered" ELSE "failed"]
    /\ fi' = fi + 1
    /\ UNCHANGED <<subscribers, transactions, fpc, ftx, flist, midCmds, storeRes>>

\* handlers.py:157: the list is exhausted, send_transaction_notification returns
EndDispatch ==
    /\ FanOnly
    /\ fpc = "send"
    /\ fi = Len(flist)
    /\ fpc' = "done"
    /\ UNCHANGED <<subscribers, transactions, ftx, flist, fi, midCmds, evals,
                   attempts, results, storeRes>>

\* the stream task goes on; the next on_transaction starts from here
NextDispatch ==
    /\ FanOnly
    /\ fpc \in {"done", "raised"}
    /\ fpc' = "idle"
    /\ ftx' = [hash |-> "h1", type |-> "none", timestamp |-> 0]
    /\ flist' = <<>>
    /\ fi' = 0
    /\ midCmds' = 0
    /\ evals' = Zeroes
    /\ attempts' = Zeroes
    /\ results' = NoResults
    /\ storeRes' = "none"
    /\ UNCHANGED <<subscribers, transactions>>

FanNext ==
    \/ CmdStart
    \/ CmdStop
    \/ CmdFilter
    \/ BeginDispatch
    \/ StoreOk
    \/ StoreInsertFails
    \/ StoreOpenFails
    \/ SendStep
    \/ EndDispatch
    \/ NextDispatch

(***************************************************************************)
(* The store on its own: calls of Database.add_transaction                 *)
(***************************************************************************)

\* the calls of add_transaction one run makes
MaxCalls == 3

\* database.py:113-141: the function has no return statement; a call that
\* does not raise returns None, whether the row was inserted or ignored
add_transaction_result(txs, tx) == "None"

\* database.py:113-138: the call inserts the row or ignores it, and returns
AddTransactionOk ==
    /\ StoOnly
    /\ sCalls < MaxCalls
    /\ \E tx \in StoreTxs :
         /\ stx' = tx
         /\ sBefore' = transactions[tx.hash]
         /\ transactions' = add_transaction(transactions, tx)
         /\ sRet' = add_transaction_result(transactions, tx)
    /\ sCalls' = sCalls + 1

\* database.py:139-141: the INSERT raises, the except clause prints it and the
\* call returns
AddTransactionInsertFails ==
    /\ StoOnly
    /\ sCalls < MaxCalls
    /\ \E tx \in StoreTxs :
         /\ stx' = tx
         /\ sBefore' = transactions[tx.hash]
         /\ sRet' = add_transaction_result(transactions, tx)
    /\ sCalls' = sCalls + 1
    /\ UNCHANGED transactions

\* database.py:115: aiosqlite.connect raises, outside the try block
AddTransactionOpenFails ==
    /\ StoOnly
    /\ sCalls < MaxCalls
    /\ \E tx \in StoreTxs :
         /\ stx' = tx
         /\ sBefore' = transactions[tx.hash]
    /\ sRet' = "raised"
    /\ sCalls' = sCalls + 1
    /\ UNCHANGED transactions

StoNext ==
    \/ AddTransactionOk
    \/ AddTransactionInsertFails
    \/ AddTransactionOpenFails

(***************************************************************************)
(* Statistics: Database.get_statistics                                     *)
(***************************************************************************)

\* config.py:33-36
TOKEN_DECIMALS == (ZNN :> 8) @@ (QSR :> 8)

RECURSIVE Pow10(_)
Pow10(n) == IF n = 0 THEN 1 ELSE 10 * Pow10(n - 1)

\* the time of the call, as <<day, second of the day>>
Now == <<10, 43200>>

\* the instants Transactions were confirmed at: 2 days, 9 days and 1 hour before
\* Now, and early on the days that lie 1 and 7 days before Now
Instants == {<<8, 43200>>, <<1, 43200>>, <<10, 39600>>, <<9, 100>>, <<3, 100>>}

(* Texts that hold a date and a time are modelled as <<day, separator, second  *)
(* of the day>>, the separator by its character code: the dates and the times  *)
(* have a fixed width, so the texts compare as these sequences do.             *)

\* database.py:117-119: datetime.isoformat() puts 'T' between date and time
isoformat(instant) == <<instant[1], 84, instant[2]>>

\* database.py:159: SQLite's datetime('now', '-N days') puts ' ' between them
sqlite_datetime(instant, days) == <<instant[1] - days, 32, instant[2]>>

\* the column value NULL
NullTs == <<>>

\* SQLite's comparison of two texts
RECURSIVE TextGreater(_, _)
TextGreater(a, b) ==
    IF a = <<>> THEN FALSE
    ELSE IF b = <<>> THEN TRUE
    ELSE IF Head(a) # Head(b) THEN Head(a) > Head(b)
    ELSE TextGreater(Tail(a), Tail(b))

\* the rows add_transaction writes: amount is the raw amount (1 and 3 token
\* units of an 8-decimal token), timestamp the isoformat text or NULL
StatTypes == {"WrapToken", "Redeem"}
StatAmounts == {100000000, 300000000}
NoStatRow == [present |-> FALSE, type |-> "none", token |-> "none", amount |-> 0,
              timestamp |-> NullTs]
StatRows ==
    [present : {TRUE}, type : StatTypes, token : {ZNN, QSR}, amount : StatAmounts,
     timestamp : {NullTs} \cup {isoformat(i) : i \in Instants}]

\* period_days
Windows == {1, 7}

\* database.py:159: the WHERE clause
Selected(row, days) ==
    row.timestamp = NullTs \/ TextGreater(row.timestamp, sqlite_datetime(Now, days))

\* the hashes of the selected rows of one (type, token) group
GroupOf(table, days, type, token) ==
    {h \in DOMAIN table : /\ table[h].present
                          /\ table[h].type = type
                          /\ table[h].token = token
                          /\ Selected(table[h], days)}

RECURSIVE SumAmounts(_, _)
SumAmounts(table, hs) ==
    IF hs = {} THEN 0
    ELSE LET h == CHOOSE x \in hs : TRUE
         IN table[h].amount + SumAmounts(table, hs \ {h})

\* database.py:157: SUM(CAST(amount AS REAL)) as volume
Volume(table, hs, token) == SumAmounts(table, hs)

\* database.py:152-176: one row per (type, token) group of the selected rows
get_statistics(table, days) ==
    {[type |-> ty, token |-> tk,
      count |-> Cardinality(GroupOf(table, days, ty, tk)),
      volume |-> Volume(table, GroupOf(table, days, ty, tk), tk)] :
        <<ty, tk>> \in {g \in StatTypes \X {ZNN, QSR} :
                          GroupOf(table, days, g[1], g[2]) # {}}}

StatInitWith(table, days) ==
    /\ stable = table
    /\ swindow = days
    /\ stats = {}
    /\ sdone = FALSE

StatIdle == StatInitWith([h \in Hashes |-> NoStatRow], 1)

StatInit ==
    \E table \in [Hashes -> StatRows \cup {NoStatRow}], days \in Windows :
        StatInitWith(table, days)

\* database.py:143-177
GetStatistics ==
    /\ StatOnly
    /\ ~sdone
    /\ stats' = get_statistics(stable, swindow)
    /\ sdone' = TRUE
    /\ UNCHANGED <<stable, swindow>>

StatNext == GetStatistics

(***************************************************************************)
(* Two add_transaction calls that interleave at their await points         *)
(***************************************************************************)

\* the two callers
Callers == {1, 2}

\* the Transactions they record
ConcTxs == [hash : Hashes, type : {"WrapToken", "Redeem"}]

\* the INSERT on a table without the primary key of database.py:27
insert_NoKey(rows, tx) == Append(rows, tx)

\* database.py:27 and 122-137: INSERT OR IGNORE on the primary key hash
insert_or_ignore(rows, tx) ==
    IF \E i \in 1..Len(rows) : rows[i].hash = tx.hash THEN rows ELSE Append(rows, tx)

ConcInitWith(txs) ==
    /\ cpc = [c \in Callers |-> "start"]
    /\ ctx = txs
    /\ clock = 0
    /\ cpending = <<>>
    /\ ctable = <<>>
    /\ cret = [c \in Callers |-> "none"]

ConcIdle == ConcInitWith([c \in Callers |-> [hash |-> "h1", type |-> "WrapToken"]])

ConcInit == \E txs \in [Callers -> ConcTxs] : ConcInitWith(txs)

\* database.py:115: the caller's own connection is opened
ConcOpen(c) ==
    /\ ConcOnly
    /\ cpc[c] = "start"
    /\ cpc' = [cpc EXCEPT ![c] = "opened"]
    /\ UNCHANGED <<ctx, clock, cpending, ctable, cret>>

\* database.py:122-136: the INSERT runs; it takes the write lock and sees the
\* durable rows
ConcInsert(c) ==
    /\ ConcOnly
    /\ cpc[c] = "opened"
    /\ clock = 0
    /\ clock' = c
    /\ cpending' = insert_or_ignore(ctable, ctx[c])
    /\ cpc' = [cpc EXCEPT ![c] = "inserted"]
    /\ UNCHANGED <<ctx, ctable, cret>>

\* database.py:122-141: the other connection holds the write lock for longer
\* than the busy timeout; the INSERT raises 'database is locked', which the
\* except clause prints
ConcInsertBusy(c) ==
    /\ ConcOnly
    /\ cpc[c] = "opened"
    /\ clock \notin {0, c}
    /\ cpc' = [cpc EXCEPT ![c] = "failed"]
    /\ UNCHANGED <<ctx, clock, cpending, ctable, cret>>

\* database.py:137: the commit makes the rows durable and releases the lock
ConcCommit(c) ==
    /\ ConcOnly
    /\ cpc[c] = "inserted"
    /\ clock = c
    /\ ctable' = cpending
    /\ cpending' = <<>>
    /\ clock' = 0
    /\ cpc' = [cpc EXCEPT ![c] = "committed"]
    /\ UNCHANGED <<ctx, cret>>

\* database.py:115 and 138-141: the connection is closed and the call returns
ConcReturn(c) ==
    /\ ConcOnly
    /\ cpc[c] \in {"committed", "failed"}
    /\ cpc' = [cpc EXCEPT ![c] = "done"]
    /\ cret' = [cret EXCEPT ![c] = add_transaction_result(ctable, ctx[c])]
    /\ UNCHANGED <<ctx, clock, cpending, ctable>>

ConcNext ==
    \E c \in Callers :
        \/ ConcOpen(c)
        \/ ConcInsert(c)
        \/ ConcInsertBusy(c)
        \/ ConcCommit(c)
        \/ ConcReturn(c)

(***************************************************************************)
(* The subscriber table under add / remove / update calls                  *)
(***************************************************************************)

MaxSubOps == 4

\* update.effective_user.username (handlers.py:26)
Usernames == {"ann", "bob"}

SubInit ==
    /\ subN = 0
    /\ subOp = <<"none", 0>>
    /\ subBefore = [u \in Users |-> NoSubscriber]
    /\ everAdded = {}

\* one more call is made, at time subN + 1
SubCall(name, u) ==
    /\ SubOnly
    /\ subN < MaxSubOps
    /\ subN' = subN + 1
    /\ subOp' = <<name, u>>
    /\ subBefore' = subscribers

\* database.py:56-63
AddSubscriber ==
    \E u \in Users, name \in Usernames :
        /\ SubCall("add", u)
        /\ subscribers' = add_subscriber(subscribers, u, name, subN + 1)
        /\ everAdded' = everAdded \cup {u}

\* database.py:65-72
RemoveSubscriber ==
    \E u \in Users :
        /\ SubCall("remove", u)
        /\ subscribers' = remove_subscriber(subscribers, u)
        /\ UNCHANGED everAdded

\* database.py:104-111
UpdateSubscriberFilters ==
    \E u \in Users, f \in FilterChoices :
        /\ SubCall("update", u)
        /\ subscribers' = update_subscriber_filters(subscribers, u, f)
        /\ UNCHANGED everAdded

SubNext == AddSubscriber \/ RemoveSubscriber \/ UpdateSubscriberFilters

(***************************************************************************)
(* The dispatch loop with deliveries that are awaited one after another    *)
(***************************************************************************)

MaxEvents == 2

\* a table of subscribers as /start, /stop and /filter leave it, and a row
\* whose filters an earlier version of the bot wrote (OLD_FILTERS,
\* migration_script.py:101; the rows the clean-up of database.py:84-94 is for)
BatchRows ==
    {NoSubscriber,
     [NoSubscriber EXCEPT !.present = TRUE, !.active = TRUE],
     [NoSubscriber EXCEPT !.present = TRUE, !.active = TRUE, !.filters = {"Redeem"}],
     [NoSubscriber EXCEPT !.present = TRUE, !.active = TRUE, !.filters = {"Transfer"}],
     [NoSubscriber EXCEPT !.present = TRUE]}

\* the Transactions the stream loop passes on; a hash may come again
BatchTxs == [hash : Hashes, type : FanoutTypes, timestamp : {0}]

BatchInitWith(unreach) ==
    /\ bpc = "reading"
    /\ btx = [hash |-> "h1", type |-> "none", timestamp |-> 0]
    /\ blist = <<>>
    /\ bi = 0
    /\ bunreach = unreach
    /\ battempts = Zeroes
    /\ bevents = 0
    /\ bsent = [u \in Users |-> [h \in Hashes |-> 0]]

BatchIdle == BatchInitWith({})

BatchInit == \E unreach \in SUBSET Users : BatchInitWith(unreach)

\* websocket.py:61-64 and 157, bot.py:46-49, handlers.py:150-154: the stream
\* loop passes the next Transaction to on_transaction; the active subscribers
\* are read and the Transaction is stored
BatchRead ==
    /\ BatchOnly
    /\ bpc = "reading"
    /\ bevents < MaxEvents
    /\ \E tx \in BatchTxs :
         /\ btx' = tx
         /\ transactions' = add_transaction(transactions, tx)
    /\ blist' = get_active_subscribers(subscribers)
    /\ subscribers' = CleanedTable(subscribers)
    /\ bi' = 0
    /\ battempts' = Zeroes
    /\ bevents' = bevents + 1
    /\ bpc' = "loop"
    /\ UNCHANGED <<bunreach, bsent>>

\* handlers.py:157-161: the next subscriber is skipped by its filters
BatchSkip ==
    /\ BatchOnly
    /\ bpc = "loop"
    /\ bi < Len(blist)
    /\ FilteredOut(blist[bi + 1], btx)
    /\ bi' = bi + 1
    /\ UNCHANGED <<dbVars, bpc, btx, blist, bunreach, battempts, bevents, bsent>>

\* handlers.py:163-169: send_message is called for the next subscriber and
\* awaited
BatchSend ==
    /\ BatchOnly
    /\ bpc = "loop"
    /\ bi < Len(blist)
    /\ ~FilteredOut(blist[bi + 1], btx)
    /\ battempts' = [battempts EXCEPT ![blist[bi + 1].user_id] = @ + 1]
    /\ bpc' = "pending"
    /\ UNCHANGED <<dbVars, btx, blist, bi, bunreach, bevents, bsent>>

\* handlers.py:164-171: the awaited send_message returns, or raises and the
\* except clause logs it; the await is not bounded by the handler, so for an
\* unreachable user the loop stays here
BatchSendDone ==
    /\ BatchOnly
    /\ bpc = "pending"
    /\ blist[bi + 1].user_id \notin bunreach
    /\ \E ok \in BOOLEAN :
         bsent' = IF ok THEN [bsent EXCEPT ![blist[bi + 1].user_id][btx.hash] = @ + 1]
                        ELSE bsent
    /\ bi' = bi + 1
    /\ bpc' = "loop"
    /\ UNCHANGED <<dbVars, btx, blist, bunreach, battempts, bevents>>

\* handlers.py:157 and websocket.py:61: the list is exhausted, on_transaction
\* returns and the stream loop reads on
BatchEnd ==
    /\ BatchOnly
    /\ bpc = "loop"
    /\ bi = Len(blist)
    /\ bpc' = "reading"
    /\ UNCHANGED <<dbVars, btx, blist, bi, bunreach, battempts, bevents, bsent>>

BatchNext == BatchRead \/ BatchSkip \/ BatchSend \/ BatchSendDone \/ BatchEnd

(***************************************************************************)
(* Amount formatting                                                       *)
(***************************************************************************)

\* strings as sequences of characters; a missing key and None
AbsentAmount == <<"<absent>">>
NoneAmount == <<"<None>">>

\* the amount fields the events carry
RawAmounts ==
    {<<"0">>, <<"7">>,
     <<"1", "5", "0", "0", "0", "0", "0", "0", "0">>,
     <<"9", "9", "9", "9", "9", "9", "9", "9">>,
     <<"1", "2", "3", "4", "5", "6", "7", "8", "9", "0", "1", "2">>,
     <<"a", "b", "c">>, <<"1", ".", "5">>,
     <<>>, AbsentAmount, NoneAmount}

\* the tokenStandard fields the events carry
RawTokens == {ZNN, QSR, SYSTEM_ZTS, OTHER_ZTS, "", Absent, PyNone}

DigitChars == <<"0", "1", "2", "3", "4", "5", "6", "7", "8", "9">>

IsDigit(c) == \E i \in 1..10 : DigitChars[i] = c

DigitVal(c) == (CHOOSE i \in 1..10 : DigitChars[i] = c) - 1

\* decoder.py:155: int(amount) succeeds (on the amounts above: digits only)
IsIntLiteral(s) == Len(s) > 0 /\ \A i \in 1..Len(s) : IsDigit(s[i])

\* the value of a sequence of digits
RECURSIVE IntOf(_)
IntOf(ds) ==
    IF ds = <<>> THEN 0
    ELSE IntOf(SubSeq(ds, 1, Len(ds) - 1)) * 10 + DigitVal(ds[Len(ds)])

\* the decimal digits of n
RECURSIVE DigitsOf(_)
DigitsOf(n) ==
    IF n < 10 THEN <<DigitChars[n + 1]>>
    ELSE DigitsOf(n \div 10) \o <<DigitChars[(n % 10) + 1]>>

\* three digits, zero-padded
Pad3(n) ==
    <<DigitChars[(n \div 100) + 1], DigitChars[((n \div 10) % 10) + 1],
      DigitChars[(n % 10) + 1]>>

\* the ',' option of the format specification: groups of three digits
RECURSIVE Grouped(_)
Grouped(n) ==
    IF n < 1000 THEN DigitsOf(n)
    ELSE Grouped(n \div 1000) \o <<",">> \o Pad3(n % 1000)

(* decoder.py:156-157: amount_int / 10 ** decimals rendered with ',.2f'. The  *)
(* division is done on the digits: the last `decimals` digits are the         *)
(* fraction, rounded to two places (none of the amounts above is a tie).       *)
Render(ds, decimals) ==
    LET n == Len(ds)
        whole0 == IF n > decimals THEN IntOf(SubSeq(ds, 1, n - decimals)) ELSE 0
        frac == IF n > decimals THEN IntOf(SubSeq(ds, n - decimals + 1, n))
                                ELSE IntOf(ds)
        unit == Pow10(decimals - 2)
        c0 == (frac + unit \div 2) \div unit
        whole == IF c0 = 100 THEN whole0 + 1 ELSE whole0
        cents == IF c0 = 100 THEN 0 ELSE c0
    IN Grouped(whole) \o <<".">>
          \o <<DigitChars[(cents \div 10) + 1], DigitChars[(cents % 10) + 1]>>

\* the exception of int(amount) leaving _format_amount
AmountRaised == <<"<raised>">>

\* TOKEN_DECIMALS.get(token, 8)
DecimalsOf(token) ==
    IF token \in DOMAIN TOKEN_DECIMALS THEN TOKEN_DECIMALS[token] ELSE 8

\* _format_amount without its except clause
format_amount_NoExcept(amount, token) ==
    IF IsIntLiteral(amount) THEN Render(amount, DecimalsOf(token))
                            ELSE AmountRaised

\* decoder.py:151-159
format_amount(amount, token) ==
    IF IsIntLiteral(amount) THEN Render(amount, DecimalsOf(token))
                            ELSE amount

\* Python truthiness of an amount
TruthyAmount(a) == a \notin {<<>>, AbsentAmount, NoneAmount}

\* decoder.py:30-31 and 47-54: the amount, token and formatted_amount keys of
\* the Transaction; "raised" when an exception leaves decode_transaction
decode_amount(amount, token) ==
    LET amt == IF amount = AbsentAmount THEN <<"0">> ELSE amount
        tok == Get(token, PyNone)
        formats == TruthyAmount(amt) /\ Truthy(tok)
    IN IF formats /\ format_amount(amt, tok) = AmountRaised
         THEN [outcome |-> "raised", amount |-> amt, token |-> tok,
               has_formatted |-> FALSE, formatted_amount |-> <<>>]
         ELSE [outcome |-> "returned", amount |-> amt, token |-> tok,
               has_formatted |-> formats,
               formatted_amount |-> IF formats THEN format_amount(amt, tok) ELSE <<>>]

NoAmountResult ==
    [outcome |-> "none", amount |-> <<>>, token |-> PyNone,
     has_formatted |-> FALSE, formatted_amount |-> <<>>]

AmtInitWith(amount, token) ==
    /\ aAmount = amount
    /\ aToken = token
    /\ aResult = NoAmountResult
    /\ aDone = FALSE

AmtIdle == AmtInitWith(<<"0">>, Absent)

AmtInit == \E amount \in RawAmounts, token \in RawTokens : AmtInitWith(amount, token)

\* decoder.py:24-54: decode_transaction is called with the event
DecodeAmount ==
    /\ AmtOnly
    /\ ~aDone
    /\ aResult' = decode_amount(aAmount, aToken)
    /\ aDone' = TRUE
    /\ UNCHANGED <<aAmount, aToken>>

AmtNext == DecodeAmount

(***************************************************************************)
(* Specifications                                                          *)
(***************************************************************************)

InitFanout ==
    ConnInit /\ DecIdle /\ IngInit /\ DbInit /\ FanInit /\ StoInit /\ StatIdle
        /\ ConcIdle
        /\ SubInit
        /\ BatchIdle
        /\ AmtIdle

SpecFanout == InitFanout /\ [][FanNext]_vars

InitStore ==
    ConnInit /\ DecIdle /\ IngInit /\ DbInit /\ FanInit /\ StoInit /\ StatIdle
        /\ ConcIdle
        /\ SubInit
        /\ BatchIdle
        /\ AmtIdle

SpecStore == InitStore /\ [][StoNext]_vars

InitStats ==
    ConnInit /\ DecIdle /\ IngInit /\ DbInit /\ FanInit /\ StoInit /\ StatInit
        /\ ConcIdle
        /\ SubInit
        /\ BatchIdle
        /\ AmtIdle

SpecStats == InitStats /\ [][StatNext]_vars

InitConc ==
    ConnInit /\ DecIdle /\ IngInit /\ DbInit /\ FanInit /\ StoInit /\ StatIdle
        /\ ConcInit
        /\ SubInit
        /\ BatchIdle
        /\ AmtIdle

SpecConc == InitConc /\ [][ConcNext]_vars

InitSubs ==
    ConnInit /\ DecIdle /\ IngInit /\ DbInit /\ FanInit /\ StoInit /\ StatIdle
        /\ ConcIdle
        /\ SubInit
        /\ BatchIdle
        /\ AmtIdle

SpecSubs == InitSubs /\ [][SubNext]_vars

\* the dispatch when every step that can be taken is taken
InitBatch ==
    /\ ConnInit /\ DecIdle /\ IngInit /\ FanInit /\ StoInit /\ StatIdle
    /\ ConcIdle
    /\ SubInit
    /\ subscribers \in [Users -> BatchRows]
    /\ transactions = [h \in Hashes |-> NoRow]
    /\ BatchInit
    /\ AmtIdle

SpecBatch == InitBatch /\ [][BatchNext]_vars /\ WF_vars(BatchNext)

InitAmount ==
    ConnInit /\ DecIdle /\ IngInit /\ DbInit /\ FanInit /\ StoInit /\ StatIdle
        /\ ConcIdle
        /\ SubInit
        /\ BatchIdle
        /\ AmtInit

SpecAmount == InitAmount /\ [][AmtNext]_vars

InitIngest ==
    ConnInit /\ DecIdle /\ IngInit /\ DbInit /\ FanInit /\ StoInit /\ StatIdle
        /\ ConcIdle
        /\ SubInit
        /\ BatchIdle
        /\ AmtIdle

SpecIngest == InitIngest /\ [][IngNext]_vars

InitDecode ==
    ConnInit /\ DecInit /\ IngInit /\ DbInit /\ FanInit /\ StoInit /\ StatIdle
        /\ ConcIdle
        /\ SubInit
        /\ BatchIdle
        /\ AmtIdle

SpecDecode == InitDecode /\ [][DecNext]_vars

InitConn ==
    ConnInit /\ DecIdle /\ IngInit /\ DbInit /\ FanInit /\ StoInit /\ StatIdle
        /\ ConcIdle
        /\ SubInit
        /\ BatchIdle
        /\ AmtIdle

SpecConn == InitConn /\ [][ConnNext]_vars

\* the manager with a backoff sleep that ends (asyncio.sleep, websocket.py:39)
SpecConnSleep == InitConn /\ [][ConnNext]_vars /\ WF_vars(SleepDone)

\* the manager when every pending operation completes or fails: the connection
\* attempt (websocket.py:53), the subscribe exchange (79-82), the sleep (39),
\* the close of stop() (47), the read of the next frame (61), and the end of
\* the iteration over a transport that has been closed (61)
SpecConnLive ==
    /\ InitConn
    /\ [][ConnNext]_vars
    /\ WF_vars(ConnectOk \/ ConnectFail)
    /\ WF_vars((\E id \in SubIds : SubscribeOk(id)) \/ SubscribeFail)
    /\ WF_vars(SleepDone)
    /\ WF_vars(StopClose)
    /\ WF_vars(MalformedFrame \/ JsonFrame \/ LaterFrame)
    /\ WF_vars(ws = "closed" /\ StreamClosed)

(***************************************************************************)
(* Claims                                                                  *)
(***************************************************************************)

\* C1: in a run of consecutive failed attempts (errors while connecting or
\* subscribing, no successful subscribe in between) the k-th backoff sleep
\* lasts min(5 * 2^(k-1), 300), and the manager streams only with delay 5.
C1_BackoffSequence ==
    /\ (spc = "sleeping" => sleepDur = BackoffOf(failRun))
    /\ (spc = "streaming" => reconnect_delay = BaseDelay)

\* C2: once stop() has been called no connection is opened and no subscribe
\* request is sent, and stop() leaves no subscription active on an open
\* transport.
C2_NothingAfterStop ==
    /\ ~connAfterStop
    /\ ~subAfterStop
    /\ (stpc \in {"done", "raised"} => ~(serverSub /\ ws = "open"))

\* the stage that just ran looked at a bridge event that is no burn event and
\* that the validity filter accepts
StageOnAcceptedEvent ==
    /\ ipc \in {"primary", "paired"}
    /\ TouchesBridge(blk)
    /\ blk.toAddress # BURN_ADDRESS
    /\ Accepted(blk)

\* C3: every event that touches the bridge address, is no burn event and is
\* accepted by the validity filter is passed to on_transaction, whatever its
\* optional fields are.
C3_AcceptedEventReachesCallback ==
    StageOnAcceptedEvent =>
        \E i \in 1..Len(calls) : calls[i] = decode_transaction(blk)

\* the entries of the list the dispatch read, and whether an entry matches
ListedUsers == {flist[i].user_id : i \in 1..Len(flist)}
Matches(i) == flist[i].filters = {} \/ ftx.type \in flist[i].filters

\* C4: in a dispatch that runs its loop, delivery is attempted to a listed
\* subscriber if and only if its filter set is empty or holds the type of the
\* Transaction; with filters {}, {WrapToken}, {Redeem} and a WrapToken
\* Transaction, subscribers 1 and 2 are attempted and 3 is filtered out.
C4_FilterDecidesAttempt ==
    fpc = "done" =>
        /\ \A i \in 1..Len(flist) :
              /\ attempts[flist[i].user_id] > 0 <=> Matches(i)
              /\ results[flist[i].user_id] = "filtered" <=> ~Matches(i)
        /\ (/\ ListedUsers = {1, 2, 3}
            /\ flist[1].filters = {}
            /\ flist[2].filters = {"WrapToken"}
            /\ flist[3].filters = {"Redeem"}
            /\ ftx.type = "WrapToken")
              => /\ attempts[flist[1].user_id] = 1
                 /\ attempts[flist[2].user_id] = 1
                 /\ attempts[flist[3].user_id] = 0
                 /\ results[flist[3].user_id] = "filtered"

\* C4's case: the example of the specification, dispatched
C4_Witness ==
    /\ fpc = "done"
    /\ ftx.type = "WrapToken"
    /\ Len(flist) = 3
    /\ flist[1] = [user_id |-> 1, filters |-> {}]
    /\ flist[2] = [user_id |-> 2, filters |-> {"WrapToken"}]
    /\ flist[3] = [user_id |-> 3, filters |-> {"Redeem"}]
    /\ results[3] = "filtered"

\* C5: a delivery that fails does not end the dispatch: the dispatch never
\* raises after a failed delivery, and when it has returned every matching
\* subscriber of the list was attempted, whichever deliveries failed.
C5_FailureIsolated ==
    /\ (fpc = "raised" => \A u \in Users : results[u] # "failed")
    /\ (\E u \in Users : results[u] = "failed") => fpc \in {"send", "done"}
    /\ (fpc = "done" =>
          \A i \in 1..Len(flist) :
              Matches(i) => results[flist[i].user_id] \in {"delivered", "failed"})

\* C5's case: the first delivery failed and the later ones were still made
C5_Witness ==
    /\ fpc = "done"
    /\ Len(flist) = 3
    /\ results[flist[1].user_id] = "failed"
    /\ results[flist[2].user_id] = "delivered"
    /\ results[flist[3].user_id] = "failed"

\* C6: the list holds exactly the subscribers that are active when it is
\* read, each once; a dispatch that runs its loop evaluates each of them once
\* and attempts each matching one once; no other subscriber is attempted.
C6_EachActiveOnce ==
    /\ (fpc = "store" /\ midCmds = 0 =>
          /\ ListedUsers = {u \in Users : subscribers[u].present /\ subscribers[u].active}
          /\ Cardinality(ListedUsers) = Len(flist))
    /\ \A u \in Users : evals[u] <= 1 /\ attempts[u] <= 1
    /\ \A u \in Users \ ListedUsers : evals[u] = 0 /\ attempts[u] = 0
    /\ (fpc = "done" =>
          \A i \in 1..Len(flist) :
              /\ evals[flist[i].user_id] = 1
              /\ attempts[flist[i].user_id] = IF Matches(i) THEN 1 ELSE 0)

\* C6's case: a dispatch over a table with an inactive subscriber
C6_Witness ==
    /\ fpc = "done"
    /\ midCmds = 0
    /\ subscribers[1].present /\ ~subscribers[1].active
    /\ subscribers[2].active
    /\ evals[1] = 0
    /\ attempts[2] = 1

\* C7: add_transaction is idempotent on the hash: the row of the first call
\* with a hash is kept unchanged by later calls, which are no error, and the
\* call reports Inserted when the hash was new and AlreadyPresent otherwise.
C7_RecordOutcome ==
    sRet \notin {"none", "raised"} =>
        /\ sBefore.present => transactions[stx.hash] = sBefore
        /\ sRet = IF sBefore.present THEN "AlreadyPresent" ELSE "Inserted"

\* C8: a payload of at least 4 bytes whose first 4 bytes are a configured
\* signature is classified as the type mapped to that signature, whatever the
\* sender, recipient, token and amount are.
C8_SignatureDecidesType ==
    \A m \in DOMAIN method_signatures :
        (/\ ddone
         /\ dblk.data.kind = "b64"
         /\ Len(dblk.data.bytes) >= 4
         /\ SubSeq(dblk.data.bytes, 1, 4) = method_signatures[m])
            => dtx.type = TRANSACTION_TYPES[m]

\* C8's case: a four-byte WrapToken payload on an event the heuristics would
\* call UnwrapToken
C8_Witness ==
    /\ ddone
    /\ dblk.data = B64(WRAP_SIG)
    /\ dblk.address = BRIDGE_ADDRESS
    /\ dblk.toAddress = USER_A
    /\ dblk.tokenStandard = ZNN
    /\ dblk.amount = "7"
    /\ dtx.type = "WrapToken"

\* C9: a WrapToken or UnwrapToken Transaction reaches on_transaction only with
\* a supported token and a non-zero amount, whether the type came from a
\* signature or from the heuristics.
C9_WrapUnwrapNeedsTokenAndAmount ==
    \A i \in 1..Len(calls) :
        calls[i].type \in {"WrapToken", "UnwrapToken"}
            => /\ blk.tokenStandard \in {ZNN, QSR}
               /\ blk.amount \notin {"0", Absent}
               /\ calls[i].token = blk.tokenStandard
               /\ calls[i].amount = blk.amount

\* C9's case: a WrapToken that took its type from the signature was delivered
C9_Witness ==
    /\ ipc = "primary"
    /\ blk.data = B64(WRAP_SIG)
    /\ blk.address = BRIDGE_ADDRESS
    /\ Len(calls) = 1
    /\ calls[1].type = "WrapToken"

\* C10: no Transaction whose recipient is the burn address reaches
\* on_transaction, as a primary or as a paired event, whatever its type.
C10_BurnNeverDelivered ==
    /\ (ipc \in {"primary", "paired"} /\ blk.toAddress = BURN_ADDRESS
           => calls = <<>>)
    /\ \A i \in 1..Len(calls) : calls[i].to_addr # BURN_ADDRESS

\* C10's case: a paired event from the bridge to the burn address that the
\* validity filter would accept
C10_Witness ==
    /\ ipc = "paired"
    /\ blk.toAddress = BURN_ADDRESS
    /\ blk.address = BRIDGE_ADDRESS
    /\ Accepted(blk)
    /\ calls = <<>>

C12_CallbacksInArrivalOrder ==
    /\ \A i, j \in 1..Len(cbLog) :
          i < j => \/ cbLog[i][1] < cbLog[j][1]
                   \/ cbLog[i][1] = cbLog[j][1] /\ cbLog[i][2] <= cbLog[j][2]
    /\ (ipc = "loop" /\ remaining = nsize => cbLog = <<>>)

\* C12's case: both events of a notification caused callbacks, the first one
\* for its primary and for its paired event
C12_Witness ==
    /\ nsize = 2
    /\ cbLog = <<(<<1, 1>>), (<<1, 2>>), (<<2, 1>>)>>

\* C13: the paired event of a primary event is classified and filtered on its
\* own: whatever the primary stage did with the primary event (delivered it,
\* rejected it, skipped it as a burn transaction, found it unrelated to the
\* bridge), the paired stage runs next and its result is that of the paired
\* event alone.
C13_PairedIndependentOfPrimary ==
    [][/\ (ipc = "primary" /\ hasPaired
             /\ outcome \in {"delivered", "rejected", "burn", "unrelated"}
           => ipc' = "pending")
       /\ (ipc = "pending" /\ ipc' = "paired" /\ ~aborted'
           => calls' = PairedIntended(blk'))]_vars

\* C14: when add_transaction fails, at the opening of the store or at the
\* insert, the dispatch still ends with a delivery attempt to every matching
\* subscriber of its list.
C14_DeliveryDespiteStoreFailure ==
    (fpc \in {"done", "raised"} /\ storeRes \in {"insertfail", "openfail"})
        => \A i \in 1..Len(flist) : Matches(i) => attempts[flist[i].user_id] >= 1

\* C15: reading a frame that is no JSON changes nothing but the count of
\* dropped frames: the subscription id, the delay, the running flag, the
\* connection and the position of start() stay as they are, the frame is not
\* passed to the handler, and the manager goes on reading the stream.
C15_MalformedFrameDropped ==
    [][(nMalformed' = nMalformed + 1)
         => /\ subscription_id' = subscription_id
            /\ reconnect_delay' = reconnect_delay
            /\ running' = running
            /\ ws' = ws
            /\ serverSub' = serverSub
            /\ spc = "streaming" /\ spc' = "streaming"
            /\ failRun' = failRun
            /\ nHandled' = nHandled]_vars

\* C15's case: a malformed frame was dropped and the frame after it handled
C15_Witness ==
    /\ spc = "streaming"
    /\ nMalformed = 1
    /\ nHandled = 1
    /\ lastFrame = "handled"
    /\ ws = "open"
    /\ subscription_id # None

InstantOf(text) == <<text[1], text[3]>>
WithinWindow(instant, days) ==
    \/ instant[1] > Now[1] - days
    \/ instant[1] = Now[1] - days /\ instant[2] > Now[2]

\* the rows of a group that the window of the call covers
Covered(type, token) ==
    {h \in Hashes : /\ stable[h].present
                    /\ stable[h].type = type
                    /\ stable[h].token = token
                    /\ \/ stable[h].timestamp = NullTs
                       \/ WithinWindow(InstantOf(stable[h].timestamp), swindow)}

\* C17: the volume of a row is the sum of its group's raw amounts in token
\* units, raw / 10^decimals: one WrapToken of raw amount 100000000 of an
\* 8-decimal token, 2 days old, gives for 7 days one row of count 1, volume 1.
C17_VolumeInTokenUnits ==
    sdone =>
        /\ \A r \in stats :
              r.volume = SumAmounts(stable, GroupOf(stable, swindow, r.type, r.token))
                             \div Pow10(TOKEN_DECIMALS[r.token])
        /\ (/\ swindow = 7
            /\ stable["h1"] = [present |-> TRUE, type |-> "WrapToken", token |-> ZNN,
                               amount |-> 100000000,
                               timestamp |-> isoformat(<<8, 43200>>)]
            /\ ~stable["h2"].present)
              => stats = {[type |-> "WrapToken", token |-> ZNN, count |-> 1,
                           volume |-> 1]}

\* C18: the rows are the (type, token) groups that hold a transaction whose
\* timestamp is null or within the trailing window, one row per group, and
\* the count of a row is the number of those transactions.
C18_WindowedCounts ==
    sdone =>
        /\ \A r1, r2 \in stats :
              r1.type = r2.type /\ r1.token = r2.token => r1 = r2
        /\ \A r \in stats : r.count = Cardinality(Covered(r.type, r.token))
        /\ \A ty \in StatTypes, tk \in {ZNN, QSR} :
              Covered(ty, tk) # {} <=> \E r \in stats : r.type = ty /\ r.token = tk

\* the durable rows that hold hash h
RowsOf(h) == {i \in 1..Len(ctable) : ctable[i].hash = h}

\* C19: two add_transaction calls for the same hash that interleave at their
\* awaits both return without raising and leave exactly one durable row for
\* the hash, in every interleaving; at no time does the table hold two.
C19_ConcurrentInsertsOneRow ==
    /\ \A h \in Hashes : Cardinality(RowsOf(h)) <= 1
    /\ \A c \in Callers : cret[c] # "raised"
    /\ ((\A c \in Callers : cpc[c] = "done") /\ ctx[1].hash = ctx[2].hash
          => /\ Cardinality(RowsOf(ctx[1].hash)) = 1
             /\ \A c \in Callers : cret[c] = "None")

\* C19's case: both calls record different content under one hash, both have
\* returned, and the row of the call that inserted first is the durable one
C19_Witness ==
    /\ \A c \in Callers : cpc[c] = "done"
    /\ ctx[1].hash = ctx[2].hash
    /\ ctx[1].type # ctx[2].type
    /\ Len(ctable) = 1
    /\ ctable[1] = ctx[2]

\* the callbacks made for event number e of the current notification
CallbacksOf(e) == {i \in 1..Len(cbLog) : cbLog[i][1] = e}

\* C20: one event causes at most two on_transaction invocations, at most one
\* for the primary event and at most one for its paired event, whatever the
\* sender and the recipient of the primary event are.
C20_AtMostOnePerStage ==
    /\ (ipc \in {"primary", "paired"} => Len(calls) <= 1)
    /\ \A e \in 1..nsize : Cardinality(CallbacksOf(e)) <= 2
    /\ \A e \in 1..nsize, st \in {1, 2} :
          Cardinality({i \in CallbacksOf(e) : cbLog[i][2] = st}) <= 1

\* C21: unsubscribing never hard-deletes: every user id that was ever added
\* still has a row, and remove_subscriber changes only the active flag of the
\* row of its user (username, filters and creation time stay) and no other row.
C21_NeverHardDeleted ==
    /\ \A u \in everAdded : subscribers[u].present
    /\ subOp[1] = "remove" =>
          subscribers =
              [u \in Users |->
                  IF u = subOp[2] /\ subBefore[u].present
                    THEN [subBefore[u] EXCEPT !.active = FALSE]
                    ELSE subBefore[u]]

\* C21's case: an active subscriber with stored filters and a username has
\* just been removed
C21_Witness ==
    /\ subOp[1] = "remove"
    /\ subBefore[subOp[2]].present
    /\ subBefore[subOp[2]].active
    /\ subBefore[subOp[2]].filters # {}
    /\ ~subscribers[subOp[2]].active
    /\ subscribers[subOp[2]].filters # {}

\* C22: transport errors are never fatal: an error while connecting,
\* subscribing or streaming takes start() to the backoff sleep, start() never
\* returns while the running flag is true, and after the sleep a new connection
\* attempt is eventually made unless stop() has cleared the flag.
C22_ErrorsNeverFatal ==
    /\ [][/\ (failRun' = failRun + 1 => spc' = "sleeping" /\ running' = running)
          /\ (spc' = "returned" => ~running')]_vars
    /\ (spc = "sleeping" ~> (spc = "connecting" \/ ~running))

\* C22's case: after two errors in a row, the second on an opened connection,
\* start() is connecting again and the flag is still true
C22_Witness ==
    /\ running
    /\ spc = "connecting"
    /\ failRun >= 2
    /\ ws = "closed"

\* C27: after stop() is called, start() eventually returns, from every phase
\* it can be in, when every pending operation of the manager completes or fails.
C27_StartReturnsAfterStop == (stpc # "none") ~> (spc = "returned")

\* C28: the unsubscribe of stop() is best-effort: when stop() is called while
\* a transport object exists, it returns normally (it goes on to the close and
\* never raises), also when the unsubscribe message cannot be sent.
C28_StopBestEffort == stpc \in {"none", "closing", "done"}

\* the subscribers of the current dispatch that its filters let through
BatchMatching == {i \in 1..Len(blist) : ~FilteredOut(blist[i], btx)}

\* C23: a delivery that never completes does not stall the batch: once a send
\* to an unreachable subscriber is awaited, the attempts to the remaining
\* subscribers of the dispatch are eventually made and the stream loop
\* eventually reads on.
C23_HungDeliveryDoesNotStall ==
    (bpc = "pending" /\ blist[bi + 1].user_id \in bunreach)
        ~> (/\ bpc = "reading"
            /\ \A i \in BatchMatching : battempts[blist[i].user_id] >= 1)

\* the payload is absent or empty, or decodes to fewer than 4 bytes
NoPrefix(block) ==
    \/ ~HasData(block)
    \/ block.data.kind = "b64" /\ Len(block.data.bytes) < 4

\* the payload decodes to 4 bytes or more and its prefix is in no table entry
UnknownPrefix(block) ==
    /\ block.data.kind = "b64"
    /\ Len(block.data.bytes) >= 4
    /\ \A m \in DOMAIN method_signatures :
          method_signatures[m] # SubSeq(block.data.bytes, 1, 4)

\* recipient bridge, supported token, non-zero amount
WrapContext(block) ==
    /\ block.toAddress = BRIDGE_ADDRESS
    /\ block.tokenStandard \in {ZNN, QSR}
    /\ block.amount \notin {"0", Absent}

\* C24 as stated: an event with no signature match (payload absent, shorter
\* than 4 bytes, or with a 4-byte prefix in no table entry), sent to the bridge
\* with a supported token and a non-zero amount, is classified as WrapToken.
C24_NoSignatureToBridgeIsWrap ==
    ddone /\ (NoPrefix(dblk) \/ UnknownPrefix(dblk)) /\ WrapContext(dblk)
        => dtx.type = "WrapToken"

\* C24 as the code has it: such an event is classified as WrapToken when its
\* payload is absent, empty, undecodable or shorter than 4 bytes, and as
\* Unknown when the payload has a 4-byte prefix that is in no table entry.
C24_NoPrefixToBridgeIsWrap ==
    ddone /\ WrapContext(dblk) =>
        /\ (NoPrefix(dblk) \/ dblk.data.kind = "bad" => dtx.type = "WrapToken")
        /\ (UnknownPrefix(dblk) => dtx.type = "Unknown")

\* C24's case: a short payload, sent by the bridge to itself with QSR, has
\* been classified as WrapToken
C24_Witness ==
    /\ ddone
    /\ WrapContext(dblk)
    /\ dblk.data.kind = "b64" /\ Len(dblk.data.bytes) = 3
    /\ dblk.address = BRIDGE_ADDRESS
    /\ dblk.tokenStandard = QSR
    /\ dtx.type = "WrapToken"

\* C25: an event with no signature match (here: no 4-byte prefix at all), sent
\* by the bridge to another address, is classified as UnwrapToken if and only
\* if its token is in the supported-token set and its amount is non-zero, and
\* as Unknown otherwise.
C25_FromBridgeUnwrapIffSupported ==
    ddone /\ NoPrefix(dblk) /\ dblk.address = BRIDGE_ADDRESS
          /\ dblk.toAddress # BRIDGE_ADDRESS
        => IF dblk.tokenStandard \in {ZNN, QSR} /\ dblk.amount \notin {"0", Absent}
             THEN dtx.type = "UnwrapToken"
             ELSE dtx.type = "Unknown"

C29_OnlyFailedEventDropped == ipc = "idle" => remaining = 0

\* the amount key of the Transaction: tx_data.get('amount', '0')
RawAmountOf(amount) == IF amount = AbsentAmount THEN <<"0">> ELSE amount

\* C30 as stated: amount formatting never aborts classification; whenever the
\* amount cannot be formatted (it is a non-empty string that is no integer
\* literal) the formatted amount is the raw amount string, also when the token
\* is missing; an unknown token is formatted with 8 decimal places.
C30_FormattedOrRawAlways ==
    aDone =>
        /\ aResult.outcome = "returned"
        /\ (~IsIntLiteral(RawAmountOf(aAmount)) /\ TruthyAmount(RawAmountOf(aAmount))
              => aResult.has_formatted
                 /\ aResult.formatted_amount = RawAmountOf(aAmount))
        /\ (IsIntLiteral(RawAmountOf(aAmount)) /\ aToken \in {SYSTEM_ZTS, OTHER_ZTS}
              => aResult.has_formatted
                 /\ aResult.formatted_amount = Render(RawAmountOf(aAmount), 8))

\* C30 as the code has it: decode_transaction always returns; the formatted
\* amount exists exactly when amount and token are both non-empty; it is then
\* the raw amount string when the amount is no integer literal, and the amount
\* rendered with the token's decimal places, 8 for an unknown token, otherwise.
C30_FormattedOrRawWhenPresent ==
    aDone =>
        /\ aResult.outcome = "returned"
        /\ aResult.has_formatted
              = (TruthyAmount(RawAmountOf(aAmount)) /\ Truthy(Get(aToken, PyNone)))
        /\ (aResult.has_formatted /\ ~IsIntLiteral(RawAmountOf(aAmount))
              => aResult.formatted_amount = RawAmountOf(aAmount))
        /\ (aResult.has_formatted /\ IsIntLiteral(RawAmountOf(aAmount))
              => aResult.formatted_amount = Render(RawAmountOf(aAmount), 8))
        /\ (aAmount = <<"1", "2", "3", "4", "5", "6", "7", "8", "9", "0", "1", "2">>
              /\ aResult.has_formatted
              => aResult.formatted_amount = <<"1", ",", "2", "3", "4", ".", "5", "7">>)

\* C30's case: a non-numeric amount with an unknown token has been decoded and
\* its formatted amount is the raw string
C30_Witness ==
    /\ aDone
    /\ aAmount = <<"a", "b", "c">>
    /\ aToken = OTHER_ZTS
    /\ aResult.outcome = "returned"
    /\ aResult.has_formatted
    /\ aResult.formatted_amount = <<"a", "b", "c">>

\* C31: in every reachable state the reconnect delay is one of 5, 10, 20, 40,
\* 80, 160, 300: never below the base delay, never above the maximum.
C31_DelayInLadder ==
    /\ reconnect_delay \in {5, 10, 20, 40, 80, 160, 300}
    /\ reconnect_delay >= BaseDelay
    /\ reconnect_delay <= MaxReconnectDelay

\* C31's case: the delay has reached the maximum after a run of failures and a
\* further sleep has ended with it still at the maximum
C31_Witness ==
    /\ reconnect_delay = MaxReconnectDelay
    /\ failRun = MaxFailRun
    /\ spc = "connecting"

\* C32: over a whole run a subscriber is sent at most one notification per
\* transaction hash: a hash that is ingested again when the store already
\* holds it is not delivered a second time.
C32_OneNotificationPerHash ==
    \A u \in Users, h \in Hashes : bsent[u][h] <= 1

\* C33: a subscribe action on an existing subscriber only reactivates it:
\* add_subscriber leaves the stored filter set and the creation time of the
\* row unchanged.
C33_ResubscribeKeepsFilters ==
    subOp[1] = "add" /\ subBefore[subOp[2]].present
        => /\ subscribers[subOp[2]].active
           /\ subscribers[subOp[2]].filters = subBefore[subOp[2]].filters
           /\ subscribers[subOp[2]].created_at = subBefore[subOp[2]].created_at

\* C34: once remove_subscriber for a user has completed, no notification is
\* sent to that user until the user subscribes again: whenever a send to a
\* user is started, the user's row is active.
C34_NoSendAfterUnsubscribe ==
    [][\A u \in Users :
          attempts'[u] > attempts[u] => subscribers[u].present /\ subscribers[u].active]_vars

\* C35: the status the status command reports reflects the connection
\* manager's state: ws_connected is true only while the manager holds an
\* open, subscribed connection.
C35_StatusReflectsConnection ==
    ws_connected => spc = "streaming" /\ ws = "open" /\ stpc = "none"

\* C36: between the end of one connection and the next connection attempt
\* the manager sleeps: while the running flag is true, a connection attempt
\* that is not the first one starts from the backoff sleep.
C36_SleepBetweenAttempts ==
    [][running /\ spc # "init" /\ spc # "connecting" /\ spc' = "connecting"
          => spc = "sleeping" /\ sleepDur >= BaseDelay]_vars

\* C37: a notification whose subscription identifier differs from the one
\* the most recent successful subscribe returned is not processed and
\* changes none of the connection manager's fields.
C37_OnlyCurrentSubscription ==
    [][nHandled' = nHandled + 1 /\ lastSub' # subscription_id
          => /\ nProcessed' = nProcessed
             /\ UNCHANGED <<running, ws, subscription_id, reconnect_delay, spc, stpc>>]_vars

\* a notification that carries the identifier of the subscription made before
\* the reconnect has been handled and was not processed
C37_Witness ==
    /\ spc = "streaming"
    /\ lastFrame = "handled"
    /\ prevSub # None
    /\ prevSub # subscription_id
    /\ lastSub = prevSub
    /\ nHandled = 1
    /\ nProcessed = 0

\* C38: the filter clean-up of get_active_subscribers never widens what a
\* subscriber receives: for a subscriber whose stored filter set was not
\* empty, every type the returned filters let through is in the stored set;
\* the returned filters name only WrapToken, UnwrapToken and Redeem.
C38_CleanupNeverWidens ==
    [][bevents' = bevents + 1
          => \A i \in 1..Len(blist') :
                LET sub == blist'[i]
                    stored == subscribers[sub.user_id].filters
                IN /\ sub.filters \subseteq valid_filters
                   /\ stored # {}
                        => \A ty \in FanoutTypes :
                              ~FilteredOut(sub, [btx' EXCEPT !.type = ty]) => ty \in stored]_vars

\* C39: an event reaches on_transaction only if its own sender or recipient
\* is the bridge address: a primary or a paired event in which neither
\* address is the bridge address causes no callback.
C39_CallbackOnlyForBridgeEvents ==
    /\ calls # <<>> => TouchesBridge(blk)
    /\ \A i \in 1..Len(calls) :
          calls[i].from_addr = BRIDGE_ADDRESS \/ calls[i].to_addr = BRIDGE_ADDRESS

\* after a primary event that was delivered, its paired event, which the
\* validity filter would accept, names the bridge in neither address and
\* causes no callback
C39_Witness ==
    /\ ipc = "paired"
    /\ primOutcome = "delivered"
    /\ ~TouchesBridge(blk)
    /\ Accepted(blk)
    /\ calls = <<>>
    /\ outcome = "unrelated"

====
